---- MODULE Spec2Model ----
(***************************************************************************)
(* A state-machine model of loom's TreeModel (src/model.py) and of the     *)
(* tree helpers it uses (src/util/util_tree.py).                           *)
(*                                                                         *)
(* Python dict objects are modelled by a heap: nodes[h] is the node dict   *)
(* with handle h, and "children" lists hold handles, so that aliasing (the *)
(* flat index and the nested tree share the same objects) is kept.         *)
(* Strings are sequences of one-character strings.                         *)
(***************************************************************************)
EXTENDS Integers, Sequences, FiniteSets, TLC

\* Bound on the number of node objects ever allocated (uuid1 never repeats,
\* so handles are never reused).
MaxNodes == 3

\* Bound on the length of a node's text (merge_with_children on the root can
\* be repeated without end, each time lengthening the children's texts).
MaxText == 3

\* Bound on the length of a text typed into update_text
MaxTyped == 2

\* Bound on the number of update_text calls made on one loaded document
MaxEdits == 2

\* Bound on the number of delete_node calls made while worker threads run
MaxMeanwhile == 1

\* Bound on the number of generation requests made on one loaded document
MaxRequests == 1

\* Bound on the num_continuations setting
MaxContinuations == 2

\* Bound on the number of node objects while generation requests are made
MaxHeap == 4

\* Bound on the number of node objects while adaptive requests are made
MaxSplitHeap == 5

\* Largest step of a traversal or sibling selection, besides the far ones
MaxOffset == 2

\* Chapters made by create_new_chapter in one run
MaxChapters == 2

\* Subtrees imported in one run
MaxImports == 2

\* Documents loaded in one run
MaxLoads == 2

\* DEFAULT_GENERATION_SETTINGS, line 40-50: the settings generation reads
DEFAULT_GENERATION_SETTINGS ==
    [num_continuations |-> 4, prompt_length |-> 6000, janus |-> FALSE,
     adaptive |-> FALSE, memory |-> <<>>]

\* Python's None, and the absence of a key in a node dict.
None == 0

VARIABLES
    nodes,             \* heap: nodes[h] = [id, text, children, parent_id,
                       \* chapter_id]
    tree_raw_data,     \* handle of tree_raw_data["root"]; None before a load
    tree_node_dict,    \* the flat index, a dict in insertion order: <<[id, node]>>
    selected_node_id,  \* the selection cursor; None before a load
    chapters,          \* the chapter registry, a dict in insertion order:
                       \* <<[id, node]>> with node a chapter; None before a load
    uuids,             \* the number of ids made for chapters so far
    last,              \* the last call: its operation, arguments and outcome
    edits,             \* the number of calls counted so far
    generation_settings,   \* tree_raw_data["generation_settings"]
    gen,               \* the generation request: arguments and locals of
                       \* generate_continuation and generate_for_nodes
    owner,             \* where the owner (Tk main loop) thread is
    worker,            \* where the worker thread is, and what the backend returned
    events,            \* the <<TreeUpdated>> events queued for the main loop
    visited,           \* the node objects whose "visited" key is True
    open,              \* the node objects whose "open" key is True
    trace              \* what the current select_node call has done so far:
                       \* the view it was entered with, then the view each
                       \* callback it fired was given

vars == <<nodes, tree_raw_data, tree_node_dict, selected_node_id, chapters, uuids,
          last, edits, generation_settings, gen, owner, worker, events,
          visited, open, trace>>

\* The variables that follow select_node statement by statement; the
\* specifications that take select_node as one step leave them alone.
selvars == <<visited, open, trace>>

chaptervars == <<chapters, uuids>>

genvars == <<generation_settings, gen, owner, worker, events>>

-----------------------------------------------------------------------------
(* Sequence helpers (Python list operations) *)

Range(s) == {s[i] : i \in DOMAIN s}

\* list.index(x): position of the first occurrence, None (0) when absent
\* (Python raises ValueError there).
IndexOf(s, x) ==
    IF \E i \in DOMAIN s : s[i] = x
    THEN CHOOSE i \in DOMAIN s : s[i] = x /\ \A j \in 1..(i - 1) : s[j] # x
    ELSE None

\* list.remove(x) on a list that holds x: drops the first occurrence.
RemoveAt(s, i) == [j \in 1..(Len(s) - 1) |-> IF j < i THEN s[j] ELSE s[j + 1]]

\* A list.remove that removes nothing
remove_nothing(s, x) == s

Remove(s, x) == RemoveAt(s, IndexOf(s, x))

\* A slice assignment that drops s[i] and puts t at the end of the list
splice_at_end(s, i, t) == RemoveAt(s, i) \o t

\* s[i:i+1] = t
Splice(s, i, t) == SubSeq(s, 1, i - 1) \o t \o SubSeq(s, i + 1, Len(s))

Count(s, x) == Cardinality({i \in DOMAIN s : s[i] = x})

-----------------------------------------------------------------------------
(* The flat index as a Python dict *)

DictKeys(d) == {d[i].id : i \in DOMAIN d}

\* d[key] for a key of d: the node object (handle) stored under it
DictGet(d, key) == d[CHOOSE i \in DOMAIN d : d[i].id = key].node

\* d[key] = node as Python does it: a new key goes to the end, an existing
\* key keeps its place and gets the new value.
DictPut(d, key, node) ==
    IF key \in DictKeys(d)
    THEN [i \in DOMAIN d |-> IF d[i].id = key THEN [id |-> key, node |-> node] ELSE d[i]]
    ELSE Append(d, [id |-> key, node |-> node])

\* list(d.values())
DictValues(d) == [i \in DOMAIN d |-> d[i].node]

-----------------------------------------------------------------------------
(* src/util/util_tree.py *)

\* A uuid1 that hands out the id of the object before once more
stale_uuid(h) == IF h > 1 THEN h - 1 ELSE h

\* str(uuid.uuid1()): a fresh identifier; the one generated for the node
\* object with handle h is modelled as h itself (handles are never reused),
\* and the one for the h-th chapter made as h.
uuid1(h) == h

\* A visiting order that takes the later siblings before the children
RECURSIVE flatten_order_siblings_first(_, _)
flatten_order_siblings_first(heap, list) ==
    IF list = <<>> THEN <<>>
    ELSE <<Head(list)>> \o flatten_order_siblings_first(heap, Tail(list))
                       \o flatten_order_siblings_first(heap, heap[Head(list)].children)

\* The order in which flatten_tree visits the objects below the list of
\* handles `list`: each node, then its flattened children, left to right.
RECURSIVE flatten_order(_, _)
flatten_order(heap, list) ==
    IF list = <<>> THEN <<>>
    ELSE <<Head(list)>> \o flatten_order(heap, heap[Head(list)].children)
                       \o flatten_order(heap, Tail(list))

\* flatten_tree line 94-95: a visited node without an id gets a fresh one.
flatten_ids(heap, order) ==
    [h \in DOMAIN heap |->
        IF h \in Range(order) /\ heap[h].id = None
        THEN [heap[h] EXCEPT !.id = uuid1(h)] ELSE heap[h]]

\* A flatten_tree that forgets line 100 (no child is stamped)
flatten_parents_unstamped(heap, order, i) == heap

\* flatten_tree line 99-100: every child of a visited node is stamped with
\* that node's id, visited nodes taken in visiting order.
RECURSIVE flatten_parents(_, _, _)
flatten_parents(heap, order, i) ==
    IF i > Len(order) THEN heap
    ELSE flatten_parents(
            [c \in DOMAIN heap |->
                IF c \in Range(heap[order[i]].children)
                THEN [heap[c] EXCEPT !.parent_id = heap[order[i]].id]
                ELSE heap[c]],
            order, i + 1)

\* flatten_tree(d): the returned list of node objects and the heap after
\* the ids and parent ids have been written.
flatten_tree(heap, d) ==
    LET order == flatten_order(heap, <<d>>)
    IN  [list |-> order,
         heap |-> flatten_parents(flatten_ids(heap, order), order, 1)]

\* fix_miro_tree only rewrites a text that holds "<p>" or "</p"; the texts
\* of this model are over an alphabet without "<", so every node takes the
\* `continue` of line 128-129 and the heap is returned as it is.
fix_miro_tree(heap) == heap

\* node_ancestry(node, node_dict): the ancestors of node, progenitor first,
\* following parent_id through node_dict.  The result is <<>> when the walk
\* meets a parent_id that is no key of node_dict (KeyError) or does not end
\* within `fuel` steps (a parent_id cycle: the loop never returns).
RECURSIVE node_ancestry_from(_, _, _, _)
node_ancestry_from(heap, d, node, fuel) ==
    IF heap[node].parent_id = None THEN <<node>>
    ELSE IF fuel = 0 \/ heap[node].parent_id \notin DictKeys(d) THEN <<>>
    ELSE LET up == node_ancestry_from(heap, d, DictGet(d, heap[node].parent_id), fuel - 1)
         IN  IF up = <<>> THEN <<>> ELSE Append(up, node)

node_ancestry(heap, d, node) == node_ancestry_from(heap, d, node, Len(heap))

-----------------------------------------------------------------------------
(* src/model.py: TreeModel.  A model value M holds the fields of the
   TreeModel object together with the heap; `raised` is set when the call
   being evaluated was left by an exception. *)

NewNode(id) ==
    [id |-> id, text |-> <<>>, children |-> <<>>, parent_id |-> None,
     active_text |-> <<>>, chapter_id |-> None]

State ==
    [nodes |-> nodes, root |-> tree_raw_data, dict |-> tree_node_dict,
     sel |-> selected_node_id, chapters |-> chapters, uuids |-> uuids,
     raised |-> FALSE]

Raise(M) == [M EXCEPT !.raised = TRUE]

\* {d["id"]: d for d in list}, built left to right
RECURSIVE dict_comprehension(_, _, _)
dict_comprehension(heap, list, i) ==
    IF i = 0 THEN <<>>
    ELSE DictPut(dict_comprehension(heap, list, i - 1), heap[list[i]].id, list[i])

\* A tree_updated that does not rebuild the index
tree_updated_no_rebuild(M) == M

\* tree_updated(rebuild_dict=True), line 113-116
tree_updated(M) ==
    IF M.root # None
    THEN LET f == flatten_tree(M.nodes, M.root)
         IN  [M EXCEPT !.dict = dict_comprehension(f.heap, f.list, Len(f.list)),
                       !.nodes = fix_miro_tree(f.heap)]
    ELSE M

\* the selected_node property, line 154-159: a handle, or None
selected_node(M) ==
    IF M.sel \notin DictKeys(M.dict) THEN None ELSE DictGet(M.dict, M.sel)

\* the nodes property, line 166-167
nodes_list(M) == DictValues(M.dict)

\* The condition of line 205
select_node_applies(M, node_id) ==
    M.sel # node_id /\ M.dict # <<>> /\ node_id \in DictKeys(M.dict)

\* select_node(node_id), line 204-221, as one step.  The cursor is written
\* before the ancestry walk of line 213, so a failing walk leaves it
\* written.  The "visited" and "open" keys and the callbacks are followed
\* where select_node is taken statement by statement (SpecSelect).
select_node(M, node_id) ==
    IF select_node_applies(M, node_id)
    THEN LET M1 == [M EXCEPT !.sel = node_id]
         IN  IF node_ancestry(M1.nodes, M1.dict, selected_node(M1)) = <<>>
             THEN Raise(M1) ELSE M1
    ELSE M

\* list.index(node), line 171 and 245: the position (0-based) of the first
\* element equal to node, None without one.  Two dict objects of one list
\* of the index are equal only when they have the same id, that is, when
\* they are the same object.
list_index(heap, list, node) ==
    IF \E i \in DOMAIN list : heap[list[i]] = heap[node]
    THEN (CHOOSE i \in DOMAIN list :
            /\ heap[list[i]] = heap[node]
            /\ \A j \in 1..(i - 1) : heap[list[j]] # heap[node]) - 1
    ELSE None - 1

\* A clip_num that wraps around the interval
wrap_num(n, lower, upper) == lower + ((n - lower) % (upper - lower + 1))

\* util.util.clip_num(n, lower, upper): n brought into [lower, upper]
clip_num(n, lower, upper) ==
    IF n < lower THEN lower ELSE IF n > upper THEN upper ELSE n

\* traverse_tree(offset), line 223-227, with the tree_traversal_idx
\* property of line 169-171
traverse_tree(M, offset) ==
    IF M.dict = <<>> THEN M
    ELSE IF selected_node(M) = None THEN Raise(M)        \* ValueError, line 171
    ELSE LET tree_traversal_idx == list_index(M.nodes, nodes_list(M), selected_node(M))
             new_idx == clip_num(tree_traversal_idx + offset, 0, Len(M.dict) - 1)
         IN  select_node(M, M.nodes[nodes_list(M)[new_idx + 1]].id)

\* A sibling index that stops at the first and the last sibling
sibling_index_clipped(i, offset, n) == clip_num(i + offset, 0, n - 1)

\* The index (0-based) of the sibling that select_sibling selects, line 245
sibling_index(i, offset, n) == (i + offset) % n

\* select_sibling(offset, node), line 241-246; node is None when the
\* argument is left out
select_sibling(M, offset, given) ==
    LET node == IF given # None THEN given ELSE selected_node(M)
    IN  IF node = None THEN M
        ELSE IF M.nodes[node].parent_id = None THEN M
        ELSE IF M.nodes[node].parent_id \notin DictKeys(M.dict)
        THEN Raise(M)                                    \* KeyError, line 244
        ELSE LET siblings == M.nodes[DictGet(M.dict, M.nodes[node].parent_id)].children
                 i == list_index(M.nodes, siblings, node)
             IN  IF i < 0 THEN Raise(M)                  \* ValueError, line 245
                 ELSE select_node(M,
                        M.nodes[siblings[sibling_index(i, offset, Len(siblings)) + 1]].id)

\* create_child(parent, update_selection, expand), line 253-269.  The new
\* dict object gets the next handle.
create_child(M, parent, update_selection) ==
    LET h  == Len(M.nodes) + 1
        M1 == [M EXCEPT !.nodes =
                  Append([M.nodes EXCEPT ![parent].children = Append(@, h)],
                         NewNode(uuid1(h)))]
        M2 == tree_updated(M1)
    IN  IF update_selection THEN select_node(M2, M2.nodes[h].id) ELSE M2

\* create_sibling(node, update_selection), line 271-276
create_sibling(M, node, update_selection) ==
    IF M.nodes[node].parent_id = None \/ M.nodes[node].parent_id \notin DictKeys(M.dict)
    THEN Raise(M)                                   \* KeyError, line 275
    ELSE create_child(M, DictGet(M.dict, M.nodes[node].parent_id), update_selection)

\* create_parent(node), line 278-297
create_parent(M, node) ==
    LET h   == Len(M.nodes) + 1
        pid == M.nodes[node].parent_id
        new_parent == [NewNode(uuid1(h)) EXCEPT !.children = <<node>>]
    IN  IF pid = None
        THEN IF M.root # node THEN Raise(M)          \* assert, line 289
             ELSE tree_updated(
                    [M EXCEPT !.root = h,
                              !.nodes = Append([M.nodes EXCEPT ![node].parent_id = new_parent.id],
                                               new_parent)])
        ELSE IF pid \notin DictKeys(M.dict) THEN Raise(M)          \* KeyError, line 292
        ELSE LET parent == DictGet(M.dict, pid)
                 old_siblings == M.nodes[parent].children
                 i == IndexOf(old_siblings, node)
             IN  IF i = None THEN Raise(M)           \* ValueError, line 293
                 ELSE tree_updated(
                        [M EXCEPT !.nodes =
                            Append([M.nodes EXCEPT ![parent].children = [old_siblings EXCEPT ![i] = h],
                                                   ![node].parent_id = new_parent.id],
                                   [new_parent EXCEPT !.parent_id = pid])])

\* merge_with_parent, line 304-311: the node's text is appended to the
\* parent's and its children take its place among the parent's children
merge_with_parent_spliced(M, node) ==
    LET pid == M.nodes[node].parent_id
    IN  IF pid = None \/ pid \notin DictKeys(M.dict) THEN Raise(M)   \* KeyError, line 304
        ELSE LET parent == DictGet(M.dict, pid)
                 M1 == [M EXCEPT !.nodes[parent].text = @ \o M.nodes[node].text]
                 index_in_parent == IndexOf(M1.nodes[parent].children, node)
             IN  IF index_in_parent = None THEN Raise(M1)            \* ValueError, line 307
                 ELSE LET moved == M1.nodes[node].children
                          M2 == [M1 EXCEPT !.nodes =
                                    [c \in DOMAIN M1.nodes |->
                                        IF c = parent
                                        THEN [M1.nodes[c] EXCEPT !.children = Splice(@, index_in_parent, moved)]
                                        ELSE M1.nodes[c]]]
                      IN  [M2 EXCEPT !.nodes =
                              [c \in DOMAIN M2.nodes |->
                                  IF c \in Range(moved)
                                  THEN [M2.nodes[c] EXCEPT !.parent_id = M2.nodes[parent].id]
                                  ELSE M2.nodes[c]]]

\* parent["id"], the argument of the select_node call of line 313
merge_with_parent_selects(M, node) ==
    M.nodes[DictGet(M.dict, M.nodes[node].parent_id)].id

\* merge_with_parent(node), line 299-314
merge_with_parent(M, node) ==
    LET M3 == merge_with_parent_spliced(M, node)
    IN  IF M3.raised THEN M3
        ELSE LET M4 == select_node(M3, merge_with_parent_selects(M, node))
             IN  IF M4.raised THEN M4 ELSE tree_updated(M4)

\* A delete_node that clips the index instead of wrapping it
delete_node_select_index_clipped(old_index, len_siblings) ==
    IF old_index > len_siblings - 1 THEN len_siblings - 1 ELSE old_index

\* The index (0-based) of the sibling that delete_node selects, line 370
delete_node_select_index(old_index, len_siblings) == old_index % len_siblings

\* delete_node, line 359-364, of a node that has a parent_id: the node is
\* taken out of its siblings, its children put after them on request
delete_node_removed(M, node, reassign_children) ==
    LET pid == M.nodes[node].parent_id
    IN  IF pid \notin DictKeys(M.dict) THEN Raise(M)                 \* KeyError, line 359
        ELSE LET parent == DictGet(M.dict, pid)
                 old_index == IndexOf(M.nodes[parent].children, node)
             IN  IF old_index = None THEN Raise(M)                   \* ValueError, line 361
                 ELSE LET removed == RemoveAt(M.nodes[parent].children, old_index)
                      IN  [M EXCEPT !.nodes[parent].children =
                              IF reassign_children
                              THEN removed \o M.nodes[node].children
                              ELSE removed]

\* A delete_node that selects the node it has removed
delete_node_selects_removed(M, M1, node, reassign_children) == M.nodes[node].id

\* The argument of the select_node call of line 368 or 370, with M the
\* model the call was entered with and M1 the model after line 364
delete_node_selects(M, M1, node, reassign_children) ==
    LET parent == DictGet(M.dict, M.nodes[node].parent_id)
        old_index == IndexOf(M.nodes[parent].children, node)
        siblings == M1.nodes[parent].children
    IN  IF reassign_children \/ Len(siblings) = 0
        THEN M1.nodes[parent].id
        ELSE M1.nodes[siblings[delete_node_select_index(
                 old_index - 1, Len(siblings)) + 1]].id

\* delete_node(node, reassign_children), line 354-371
delete_node(M, node, reassign_children) ==
    IF M.nodes[node].parent_id = None THEN M                         \* line 356-357
    ELSE LET M1 == delete_node_removed(M, node, reassign_children)
         IN  IF M1.raised THEN M1
             ELSE LET M2 == select_node(M1,
                               delete_node_selects(M, M1, node, reassign_children))
                  IN  IF M2.raised THEN M2 ELSE tree_updated(M2)

\* merge_with_children(node), line 316-324
merge_with_children(M, node) ==
    LET children == M.nodes[node].children
        M1 == [M EXCEPT !.nodes =
                  [c \in DOMAIN M.nodes |->
                      IF c \in Range(children)
                      THEN [M.nodes[c] EXCEPT !.text = M.nodes[node].text \o @]
                      ELSE M.nodes[c]]]
    IN  delete_node(M1, node, TRUE)

\* change_parent(node, new_parent_id), line 328-345
change_parent(M, node, new_parent_id) ==
    LET pid == M.nodes[node].parent_id
    IN  IF M.nodes[node].id = new_parent_id THEN M                   \* line 333-334
        ELSE IF pid = None
        THEN IF M.root # node THEN Raise(M) ELSE M                   \* line 335-338
        ELSE IF new_parent_id = pid THEN M                           \* line 339-340
        ELSE IF pid \notin DictKeys(M.dict) THEN Raise(M)            \* KeyError, line 341
        ELSE LET old_parent == DictGet(M.dict, pid)
             IN  IF IndexOf(M.nodes[old_parent].children, node) = None
                 THEN Raise(M)                                       \* ValueError, line 342
                 ELSE LET M1 == [M EXCEPT !.nodes[old_parent].children = Remove(@, node),
                                          !.nodes[node].parent_id = new_parent_id]
                      IN  IF new_parent_id \notin DictKeys(M1.dict)
                          THEN Raise(M1)                             \* KeyError, line 344
                          ELSE tree_updated(
                                 [M1 EXCEPT !.nodes[DictGet(M1.dict, new_parent_id)].children
                                               = Append(@, node)])

\* What chapter(node) returns when it returns None
NoChapter == [id |-> None, root_id |-> None, title |-> ""]

\* dict.pop(key) of a key that is there
DictPop(d, key) == RemoveAt(d, CHOOSE i \in DOMAIN d : d[i].id = key)

\* A search of the lineage that starts at the progenitor
RECURSIVE chapter_from_progenitor(_, _, _)
chapter_from_progenitor(M, lineage, i) ==
    IF i > Len(lineage) THEN [raised |-> FALSE, chapter |-> NoChapter]
    ELSE IF M.nodes[lineage[i]].chapter_id # None
    THEN IF M.nodes[lineage[i]].chapter_id \in DictKeys(M.chapters)
         THEN [raised |-> FALSE,
               chapter |-> DictGet(M.chapters, M.nodes[lineage[i]].chapter_id)]
         ELSE [raised |-> TRUE, chapter |-> NoChapter]
    ELSE chapter_from_progenitor(M, lineage, i + 1)

\* The loop of chapter(node), line 144-147, over reversed(lineage) from its
\* i-th element on: the first lineage node with a chapter_id decides
RECURSIVE chapter_in_lineage(_, _, _)
chapter_in_lineage(M, lineage, i) ==
    IF i > Len(lineage) THEN [raised |-> FALSE, chapter |-> NoChapter]
    ELSE LET lineage_node == lineage[Len(lineage) + 1 - i]
         IN  IF M.nodes[lineage_node].chapter_id # None
             THEN IF M.nodes[lineage_node].chapter_id \in DictKeys(M.chapters)
                  THEN [raised |-> FALSE,
                        chapter |-> DictGet(M.chapters, M.nodes[lineage_node].chapter_id)]
                  ELSE [raised |-> TRUE, chapter |-> NoChapter]  \* KeyError, line 146
             ELSE chapter_in_lineage(M, lineage, i + 1)

\* chapter(node), line 143-147: what it returns, and whether it raised
chapter(M, node) ==
    LET lineage == node_ancestry(M.nodes, M.dict, node)
    IN  IF lineage = <<>> THEN [raised |-> TRUE, chapter |-> NoChapter]
        ELSE chapter_in_lineage(M, lineage, 1)

\* delete_chapter(chapter, update_tree), line 424-428
delete_chapter(M, chapter_, update_tree) ==
    IF chapter_.id \notin DictKeys(M.chapters) THEN Raise(M)         \* KeyError, line 425
    ELSE LET M1 == [M EXCEPT !.chapters = DictPop(@, chapter_.id)]
         IN  IF chapter_.root_id \notin DictKeys(M1.dict) THEN Raise(M1)   \* KeyError, line 426
             ELSE LET root == DictGet(M1.dict, chapter_.root_id)
                  IN  IF M1.nodes[root].chapter_id = None THEN Raise(M1)   \* KeyError, line 426
                      ELSE LET M2 == [M1 EXCEPT !.nodes[root].chapter_id = None]
                           IN  IF update_tree THEN tree_updated(M2) ELSE M2

\* The "if chapter_id in node: delete_chapter(self.chapters[...], False)" of
\* line 412-413 and 433-434
delete_chapter_of(M, node) ==
    IF M.nodes[node].chapter_id = None THEN M
    ELSE IF M.nodes[node].chapter_id \notin DictKeys(M.chapters)
    THEN Raise(M)                                                    \* KeyError
    ELSE delete_chapter(M, DictGet(M.chapters, M.nodes[node].chapter_id), FALSE)

\* create_new_chapter(node, title), line 411-422.  The new chapter's id is
\* the next one made.
create_new_chapter(M, node, title) ==
    LET M1 == delete_chapter_of(M, node)
    IN  IF M1.raised THEN M1
        ELSE IF title # ""
        THEN LET new_chapter == [id |-> uuid1(M1.uuids + 1),
                                 root_id |-> M1.nodes[node].id, title |-> title]
             IN  tree_updated(
                   [M1 EXCEPT !.uuids = @ + 1,
                              !.chapters = DictPut(@, new_chapter.id, new_chapter),
                              !.nodes[node].chapter_id = new_chapter.id])
        ELSE tree_updated(M1)

\* The recursion of remove_all_chapters, line 433-436, over the nodes still
\* to visit, in the order of the calls
RECURSIVE remove_chapters(_, _)
remove_chapters(M, to_visit) ==
    IF to_visit = <<>> THEN M
    ELSE LET node == Head(to_visit)
             M1 == delete_chapter_of(M, node)
         IN  IF M1.raised THEN M1
             ELSE remove_chapters(M1, M1.nodes[node].children \o Tail(to_visit))

\* remove_all_chapters(node), line 430-438; node is None when the argument
\* is left out
remove_all_chapters(M, node) ==
    LET was_root == node = None
        M1 == remove_chapters(M, <<IF was_root THEN M.root ELSE node>>)
    IN  IF M1.raised THEN M1
        ELSE IF was_root THEN tree_updated(M1) ELSE M1

\* An import_chapters that takes every chapter of the imported registry
import_every_chapter(M, to_visit, imported) ==
    [M EXCEPT !.chapters = @ \o imported]

\* import_chapters(root, chapters), line 402-406, over the nodes still to
\* visit, in the order of the calls
RECURSIVE import_chapters(_, _, _)
import_chapters(M, to_visit, imported) ==
    IF to_visit = <<>> THEN M
    ELSE LET root == Head(to_visit)
             id == M.nodes[root].chapter_id
             rest == M.nodes[root].children \o Tail(to_visit)
         IN  IF id # None /\ id \notin DictKeys(M.chapters)
             THEN IF id \notin DictKeys(imported) THEN Raise(M)      \* KeyError, line 404
                  ELSE import_chapters(
                         [M EXCEPT !.chapters = DictPut(@, id, DictGet(imported, id))],
                         rest, imported)
             ELSE import_chapters(M, rest, imported)

\* A stripping loop that runs at most once
strip_one_trailing_space(text, num_spaces) ==
    IF Len(text) > 0 /\ text[Len(text)] = " "
    THEN [text |-> SubSeq(text, 1, Len(text) - 1), num_spaces |-> num_spaces + 1]
    ELSE [text |-> text, num_spaces |-> num_spaces]

\* update_text line 378-381: the text without its trailing spaces, and the
\* number of spaces taken off.
RECURSIVE strip_trailing_spaces(_, _)
strip_trailing_spaces(text, num_spaces) ==
    IF Len(text) > 0 /\ text[Len(text)] = " "
    THEN strip_trailing_spaces(SubSeq(text, 1, Len(text) - 1), num_spaces + 1)
    ELSE [text |-> text, num_spaces |-> num_spaces]

\* " " * n
Spaces(n) == [i \in 1..n |-> " "]

\* An update_text that gives the children the spaces the old text ended in
given_spaces_of_old_text(old_text, num_spaces) ==
    strip_trailing_spaces(old_text, 0).num_spaces

\* The number of spaces update_text gives to the children, line 387
given_spaces(old_text, num_spaces) == num_spaces

\* update_text(node, text, active_text), line 373-396.  has_active_text is
\* FALSE for active_text=None; an absent "active_text" key reads as "".
update_text(M, node, text, has_active_text, active_text) ==
    IF M.nodes[node].id \notin DictKeys(M.dict) THEN Raise(M)        \* assert, line 374
    ELSE LET stripped == strip_trailing_spaces(text, 0)
             text_edited == M.nodes[node].text # stripped.text
             M1 == IF text_edited
                   THEN [M EXCEPT !.nodes =
                           [c \in DOMAIN M.nodes |->
                               IF c = node
                               THEN [M.nodes[c] EXCEPT !.text = stripped.text]
                               ELSE IF c \in Range(M.nodes[node].children)
                               THEN [M.nodes[c] EXCEPT !.text =
                                        Spaces(given_spaces(M.nodes[node].text,
                                                            stripped.num_spaces)) \o @]
                               ELSE M.nodes[c]]]
                   ELSE M
             active_edited == has_active_text /\ M1.nodes[node].active_text # active_text
             M2 == IF active_edited
                   THEN [M1 EXCEPT !.nodes[node].active_text = active_text]
                   ELSE M1
         IN  IF text_edited \/ active_edited THEN tree_updated(M2) ELSE M2

\* load_tree_data(data), line 470-486.  doc.nodes are the dict objects the
\* JSON parser made (handles relative to the document, its root first);
\* they are placed on the heap after the objects already there.
\* doc.selected_node_id is None when the document has no such key, and
\* doc.chapters is empty when it has no "chapters" key.  A document that
\* is not wrapped has no "root" key: it is the root node itself, and line
\* 473-477 wraps it in a dict that has no other key.
ShiftDoc(doc_nodes, k) ==
    [i \in DOMAIN doc_nodes |->
        [doc_nodes[i] EXCEPT !.children = [j \in DOMAIN @ |-> @[j] + k]]]

\* load_tree_data, line 471-485: the model when select_node is called
tree_data_loaded(M, doc) ==
    LET k  == Len(M.nodes)
        M1 == [M EXCEPT !.nodes = @ \o ShiftDoc(doc.nodes, k), !.root = k + 1,
                        !.chapters = IF doc.wrapped THEN doc.chapters
                                     ELSE <<>>]                      \* line 448-450
        f  == flatten_tree(M1.nodes, M1.root)                        \* line 478
        M2 == [M1 EXCEPT !.nodes = f.heap,
                         !.dict = dict_comprehension(f.heap, f.list, Len(f.list))]
    IN  tree_updated(M2)                                             \* line 485

\* The argument of the select_node call of line 486
tree_data_selection(M3, doc) ==
    IF doc.wrapped /\ doc.selected_node_id # None
    THEN doc.selected_node_id
    ELSE M3.nodes[nodes_list(M3)[1]].id

load_tree_data(M, doc) ==
    select_node(tree_data_loaded(M, doc),
                tree_data_selection(tree_data_loaded(M, doc), doc))

\* import_tree(filename), line 495-506, with doc what json_open returned;
\* doc.nodes is empty when it has no "root" key
import_tree(M, doc) ==
    IF doc.nodes = <<>> THEN M                                       \* line 505-506
    ELSE IF selected_node(M) = None THEN Raise(M)                    \* TypeError, line 500
    ELSE LET k == Len(M.nodes)
             new_subtree_root == k + 1
             M1 == [M EXCEPT !.nodes =
                       [@ EXCEPT ![selected_node(M)].children = Append(@, new_subtree_root)]
                           \o ShiftDoc([doc.nodes EXCEPT ![1].parent_id = M.sel], k)]
             M2 == IF doc.has_chapters
                   THEN import_chapters(M1, <<new_subtree_root>>, doc.chapters)
                   ELSE M1
         IN  IF M2.raised THEN M2 ELSE tree_updated(M2)

-----------------------------------------------------------------------------
(* Documents that can be loaded *)

DocNode(text, children) ==
    [NewNode(None) EXCEPT !.text = text, !.children = children]

Document(doc_nodes) ==
    [nodes |-> doc_nodes, wrapped |-> TRUE, selected_node_id |-> None,
     has_chapters |-> FALSE, chapters |-> <<>>]

\* Documents without stored ids or selection, every text empty as in
\* EMPTY_TREE (line 62-68): a single root, a root with one child, a root
\* with two children, a chain of three, a root with three children.
Documents ==
    { Document(<<DocNode(<<>>, <<>>)>>),
      Document(<<DocNode(<<>>, <<2>>), DocNode(<<>>, <<>>)>>),
      Document(<<DocNode(<<>>, <<2, 3>>), DocNode(<<>>, <<>>), DocNode(<<>>, <<>>)>>),
      Document(<<DocNode(<<>>, <<2>>), DocNode(<<>>, <<3>>), DocNode(<<>>, <<>>)>>),
      Document(<<DocNode(<<>>, <<2, 3, 4>>), DocNode(<<>>, <<>>), DocNode(<<>>, <<>>),
                 DocNode(<<>>, <<>>)>>) }

\* The texts of the update_text scenario of spec section 8
TheCatSat == <<"T", "h", "e", " ", "c", "a", "t", " ", "s", "a", "t">>

Down == <<"d", "o", "w", "n", ".">>

ScenarioTexts == {TheCatSat \o <<" ", " ">>, TheCatSat, Down, <<" ", " ">> \o Down}

\* Documents with texts: a root with one child, a root whose text ends in
\* a space with two children, the scenario's node and child.
TextDocuments ==
    { Document(<<DocNode(<<"a">>, <<2>>), DocNode(<<"b">>, <<>>)>>),
      Document(<<DocNode(<<"a", " ">>, <<2, 3>>), DocNode(<<"b">>, <<>>),
                 DocNode(<<>>, <<>>)>>),
      Document(<<DocNode(TheCatSat \o <<" ", " ">>, <<2>>), DocNode(Down, <<>>)>>) }

\* The texts that can be typed: every text of at most MaxTyped characters
\* over "a" and " ", and the scenario's new text.
RECURSIVE TextsUpTo(_)
TextsUpTo(n) ==
    IF n = 0 THEN {<<>>}
    ELSE LET shorter == TextsUpTo(n - 1)
         IN  shorter \cup {Append(t, c) : t \in shorter, c \in {"a", " "}}

TypedTexts == TextsUpTo(MaxTyped) \cup {TheCatSat}

\* A call may not make a text longer than MaxText characters; the
\* scenario's texts are admitted whole, and so is a text already there.
WithinText(t) ==
    IF Len(t) <= MaxText THEN TRUE
    ELSE t \in ScenarioTexts \cup {nodes[h].text : h \in DOMAIN nodes}

-----------------------------------------------------------------------------
(* The state machine of the owner thread: one action per TreeModel call *)

\* Position (0-based) of node in the child list of the node the index
\* gives as its parent, and that list's length; -1 and 0 without one.
PosOf(M, node) ==
    IF M.nodes[node].parent_id \in DictKeys(M.dict)
    THEN IndexOf(M.nodes[DictGet(M.dict, M.nodes[node].parent_id)].children, node) - 1
    ELSE -1

SiblingsOf(M, node) ==
    IF M.nodes[node].parent_id \in DictKeys(M.dict)
    THEN Len(M.nodes[DictGet(M.dict, M.nodes[node].parent_id)].children)
    ELSE 0

\* The node object the index gives as node's parent, None without one
ParentOf(M, node) ==
    IF M.nodes[node].parent_id \in DictKeys(M.dict)
    THEN DictGet(M.dict, M.nodes[node].parent_id)
    ELSE None

\* A call as the history variable records it: the operation, the node
\* object and the other argument it was given and, as they were when the
\* call was made, the node's parent, its position among its siblings and
\* their number, and the node's text.
Call(op, node, arg) ==
    [op |-> op, node |-> node, arg |-> arg,
     text |-> IF node = None THEN <<>> ELSE nodes[node].text,
     parent |-> IF node = None THEN None ELSE ParentOf(State, node),
     pos |-> IF node = None THEN -1 ELSE PosOf(State, node),
     len |-> IF node = None THEN 0 ELSE SiblingsOf(State, node)]

\* The node objects still referenced: those reachable through "children"
\* from the tree's root, from the objects the flat index holds and from the
\* placeholders a generation request holds.
RECURSIVE ReachableFrom(_, _)
ReachableFrom(heap, set) ==
    LET more == set \cup UNION {Range(heap[h].children) : h \in set}
    IN  IF more = set THEN set ELSE ReachableFrom(heap, more)

Referenced(M, held) ==
    ReachableFrom(M.nodes,
        (IF M.root = None THEN {} ELSE {M.root}) \cup Range(DictValues(M.dict)) \cup held)

\* Python frees a dict object that nothing references; its handle stays
\* used up and its content is gone.
Collected(M, held) ==
    LET live == Referenced(M, held)
    IN  [h \in DOMAIN M.nodes |-> IF h \in live THEN M.nodes[h] ELSE NewNode(None)]

\* The fields of the TreeModel and the heap become those of M, while a
\* request holds the placeholders `held`
GoesHolding(M, held) ==
    /\ nodes' = Collected(M, held)
    /\ tree_raw_data' = M.root
    /\ tree_node_dict' = M.dict
    /\ selected_node_id' = M.sel
    /\ chapters' = M.chapters
    /\ uuids' = M.uuids

Goes(M) == GoesHolding(M, Range(gen.children) \cup Range(gen.grandchildren))

\* The variables after a call that took the model to M
BecomesHolding(M, call, held) ==
    /\ \A h \in DOMAIN M.nodes : WithinText(M.nodes[h].text)
    /\ GoesHolding(M, held)
    /\ last' = [op |-> call.op, node |-> call.node, arg |-> call.arg,
                text |-> call.text,
                parent |-> call.parent, pos |-> call.pos, len |-> call.len,
                ret |-> IF M.raised THEN "raised" ELSE "returned"]

Becomes(M, call) ==
    BecomesHolding(M, call, Range(gen.children) \cup Range(gen.grandchildren))

Loaded == tree_raw_data # None

\* The main loop is between two handlers and a tree is loaded
Ready == Loaded /\ owner.pc = "idle"

NoRequest ==
    [node |-> None, children |-> <<>>, grandchildren |-> <<>>,
     update_selection |-> FALSE, prompt |-> <<>>,
     children_before |-> <<>>, handoffs |-> 0, requests |-> 0]

NoResponse == [choices_ok |-> FALSE, choices |-> <<>>, error |-> <<>>]

\* The node objects a caller can hold: those of the flat index
Indexed == Range(DictValues(tree_node_dict))

CanAllocate == Len(nodes) < MaxNodes

Init ==
    /\ nodes = <<>>
    /\ tree_raw_data = None
    /\ tree_node_dict = <<>>
    /\ selected_node_id = None
    /\ chapters = None
    /\ uuids = 0
    /\ last = [op |-> "init", node |-> None, arg |-> None, text |-> <<>>,
               parent |-> None,
               pos |-> -1, len |-> 0,
               ret |-> "returned"]
    /\ edits = 0
    /\ generation_settings = DEFAULT_GENERATION_SETTINGS
    /\ gen = NoRequest
    /\ owner = [pc |-> "idle", i |-> 0]
    /\ worker = [pc |-> "none", i |-> 0, resp |-> NoResponse, raised |-> "none"]
    /\ events = 0
    /\ visited = {}
    /\ open = {}
    /\ trace = <<>>

LoadTreeData ==
    /\ ~Loaded
    /\ \E doc \in Documents :
          Becomes(load_tree_data(State, doc), Call("load_tree_data", None, None))
    /\ UNCHANGED <<edits, genvars, selvars>>

SelectNode ==
    /\ Ready
    /\ \E id \in DictKeys(tree_node_dict) :
          Becomes(select_node(State, id), Call("select_node", None, id))
    /\ UNCHANGED <<edits, genvars, selvars>>

CreateChild ==
    /\ Ready /\ CanAllocate
    /\ \E parent \in Indexed, update_selection \in BOOLEAN :
          Becomes(create_child(State, parent, update_selection),
                  Call("create_child", parent, update_selection))
    /\ UNCHANGED <<edits, genvars, selvars>>

CreateSibling ==
    /\ Ready /\ CanAllocate
    /\ \E node \in Indexed, update_selection \in BOOLEAN :
          Becomes(create_sibling(State, node, update_selection),
                  Call("create_sibling", node, update_selection))
    /\ UNCHANGED <<edits, genvars, selvars>>

CreateParent ==
    /\ Ready /\ CanAllocate
    /\ \E node \in Indexed :
          Becomes(create_parent(State, node), Call("create_parent", node, None))
    /\ UNCHANGED <<edits, genvars, selvars>>

MergeWithParent ==
    /\ Ready
    /\ \E node \in Indexed :
          Becomes(merge_with_parent(State, node), Call("merge_with_parent", node, None))
    /\ UNCHANGED <<edits, genvars, selvars>>

MergeWithChildren ==
    /\ Ready
    /\ \E node \in Indexed :
          Becomes(merge_with_children(State, node), Call("merge_with_children", node, None))
    /\ UNCHANGED <<edits, genvars, selvars>>

ChangeParent ==
    /\ Ready
    /\ \E node \in Indexed, new_parent_id \in DictKeys(tree_node_dict) :
          Becomes(change_parent(State, node, new_parent_id),
                  Call("change_parent", node, new_parent_id))
    /\ UNCHANGED <<edits, genvars, selvars>>

DeleteNode ==
    /\ Ready
    /\ \E node \in Indexed, reassign_children \in BOOLEAN :
          Becomes(delete_node(State, node, reassign_children),
                  Call("delete_node", node, reassign_children))
    /\ UNCHANGED <<edits, genvars, selvars>>

Next ==
    \/ LoadTreeData
    \/ SelectNode
    \/ CreateChild
    \/ CreateSibling
    \/ CreateParent
    \/ MergeWithParent
    \/ MergeWithChildren
    \/ ChangeParent
    \/ DeleteNode

Spec == Init /\ [][Next]_vars

-----------------------------------------------------------------------------
(* The text edits, on documents with texts *)

LoadTextDocument ==
    /\ ~Loaded
    /\ \E doc \in TextDocuments :
          Becomes(load_tree_data(State, doc), Call("load_tree_data", None, None))
    /\ UNCHANGED <<edits, genvars, selvars>>

\* active_text is None (has_active_text FALSE) or "a"
UpdateText ==
    /\ Ready /\ edits < MaxEdits
    /\ edits' = edits + 1
    /\ UNCHANGED <<genvars, selvars>>
    /\ \E node \in Indexed, text \in TypedTexts,
          active \in {[has |-> FALSE, text |-> <<>>], [has |-> TRUE, text |-> <<"a">>]} :
          Becomes(update_text(State, node, text, active.has, active.text),
                  Call("update_text", node, text))

NextText ==
    \/ LoadTextDocument
    \/ UpdateText

SpecText == Init /\ [][NextText]_vars

-----------------------------------------------------------------------------
(* Generation: generate_continuation on the owner thread and
   generate_for_nodes on the worker thread it starts.  The threads
   interleave between statements; one request is in flight at a time. *)

\* The loading text of line 606 and 608
Generating ==
    <<"\n", "\n", "*", "*", " ", "G", "e", "n", "e", "r", "a", "t", "i", "n", "g",
      " ", "*", "*">>

\* "ERROR: ", line 570
ErrorPrefix == <<"E", "R", "R", "O", "R", ":", " ">>

\* An error message of the backend
RateLimited == <<"r", "a", "t", "e", " ", "l", "i", "m", "i", "t", "e", "d">>

\* The i-th completion's text: two tokens of one character each
CompletionText(i) ==
    << <<"p", "q">>, <<"r", "s">>, <<"t", "u">>, <<"v", "w">> >>[((i - 1) % 4) + 1]

\* A completion as line 556-559 reads it: its text, the log-probability of
\* each token and each token's offset in prompt + text.  The least likely
\* token is the first one in the odd completions, the second in the even.
Choice(i, prompt) ==
    [text |-> CompletionText(i),
     token_logprobs |-> IF i % 2 = 1 THEN <<-2, -1>> ELSE <<-1, -2>>,
     text_offset |-> <<Len(prompt), Len(prompt) + 1>>]

\* What api_generate can return for num_continuations = n: the
\* completions and no error, or no results and an error message.
\* choices_ok tells whether `results.choices` can be evaluated.
api_generate(prompt, n) ==
    { [choices_ok |-> TRUE, choices |-> [i \in 1..n |-> Choice(i, prompt)], error |-> <<>>],
      [choices_ok |-> FALSE, choices |-> <<>>, error |-> RateLimited] }

\* Line 540-544: n calls of janus_generate, each returning (result, error);
\* zip makes `results` a tuple, which has no attribute `choices`; error is
\* the first error of a call, None without one.
janus_generate(prompt, n) ==
    { [choices_ok |-> FALSE, choices |-> <<>>, error |-> e] : e \in {<<>>, RateLimited} }

\* "".join(texts of the nodes of path)
RECURSIVE join(_, _)
join(heap, path) ==
    IF path = <<>> THEN <<>>
    ELSE join(heap, SubSeq(path, 1, Len(path) - 1)) \o heap[path[Len(path)]].text

\* The index Python's slicing makes of p on a sequence of n elements
slice_index(p, n) ==
    IF p < 0 THEN (IF n + p < 0 THEN 0 ELSE n + p)
    ELSE IF p > n THEN n ELSE p

\* s[-n:]
last_chars(s, n) == SubSeq(s, slice_index(0 - n, Len(s)) + 1, Len(s))

\* np.argmin: the first (1-based here) position of the smallest element
argmin(s) ==
    CHOOSE i \in DOMAIN s :
        /\ \A j \in DOMAIN s : s[i] <= s[j]
        /\ \A j \in 1..(i - 1) : s[j] > s[i]

\* split_position, line 557
split_position(result, prompt) ==
    result.text_offset[argmin(result.token_logprobs)] - Len(prompt)

\* A child text that takes a negative split position for the start of the text
childtext_from_start(result, prompt) ==
    SubSeq(result.text, 1,
           IF split_position(result, prompt) < 0 THEN 0
           ELSE slice_index(split_position(result, prompt), Len(result.text)))

\* childtext, line 558
childtext(result, prompt) ==
    SubSeq(result.text, 1, slice_index(split_position(result, prompt), Len(result.text)))

\* grandchild_text, line 559
grandchild_text(result, prompt) ==
    SubSeq(result.text, slice_index(split_position(result, prompt), Len(result.text)) + 1,
           Len(result.text))

\* Line 590-593: n placeholder children of node and, in adaptive mode, a
\* placeholder child of each
RECURSIVE create_placeholders(_, _, _, _)
create_placeholders(M, node, adaptive, n) ==
    IF n = 0 THEN [M |-> M, children |-> <<>>, grandchildren |-> <<>>]
    ELSE LET before == create_placeholders(M, node, adaptive, n - 1)
             M1 == create_child(before.M, node, FALSE)
             child == Len(M1.nodes)
             M2 == IF adaptive THEN create_child(M1, child, FALSE) ELSE M1
         IN  [M |-> M2,
              children |-> Append(before.children, child),
              grandchildren |-> IF adaptive THEN Append(before.grandchildren, Len(M2.nodes))
                                ELSE before.grandchildren]

\* A placeholder that stays in its parent's child list
keep_placeholder(children, node) == children

\* parent["children"].remove(node), line 573
remove_placeholder(children, node) == Remove(children, node)

WorkerStopped == worker.pc \in {"none", "done", "died"}

\* generate_continuation(node, update_selection) up to the start of the
\* worker thread, line 582-602
GenerateContinuationWithin(max_heap) ==
    /\ Ready /\ WorkerStopped /\ gen.requests < MaxRequests
    /\ \E arg \in Indexed \cup {None}, update_selection \in BOOLEAN :
          LET node == IF arg # None THEN arg ELSE selected_node(State)
              n == generation_settings.num_continuations
              adaptive == generation_settings.adaptive
              call == Call("generate_continuation", node, update_selection)
          IN  IF node = None
              THEN Becomes(State, call) /\ UNCHANGED <<gen, owner, worker, events>>
              ELSE /\ Len(nodes) + n * (IF adaptive THEN 2 ELSE 1) <= max_heap
                   /\ \E p \in {create_placeholders(State, node, adaptive, n)} :
                      LET path == node_ancestry(p.M.nodes, p.M.dict, p.children[1])
                      IN  IF path = <<>>
                          THEN Becomes(Raise(p.M), call)
                               /\ UNCHANGED <<gen, owner, worker, events>>
                          ELSE /\ BecomesHolding(p.M, call, {})
                               /\ gen' = [node |-> node, children |-> p.children,
                                          grandchildren |-> p.grandchildren,
                                          update_selection |-> update_selection,
                                          prompt |-> generation_settings.memory
                                              \o last_chars(join(p.M.nodes, path),
                                                            generation_settings.prompt_length),
                                          children_before |-> nodes[node].children,
                                          handoffs |-> 0, requests |-> gen.requests + 1]
                               /\ worker' = [pc |-> "backend", i |-> 0, resp |-> NoResponse,
                                             raised |-> "none"]
                               /\ owner' = [pc |-> "mark_children", i |-> 1]
                               /\ UNCHANGED events
    /\ UNCHANGED <<selvars, edits, generation_settings>>

GenerateContinuation == GenerateContinuationWithin(MaxHeap)

\* child["text"] = "\n\n** Generating **", line 605-606
MarkChild ==
    /\ owner.pc = "mark_children"
    /\ nodes' = [nodes EXCEPT ![gen.children[owner.i]].text = Generating]
    /\ owner' = IF owner.i < Len(gen.children) THEN [owner EXCEPT !.i = @ + 1]
                ELSE IF gen.grandchildren # <<>> THEN [pc |-> "mark_grandchildren", i |-> 1]
                ELSE [pc |-> "refresh", i |-> 0]
    /\ UNCHANGED <<selvars, chaptervars, tree_raw_data, tree_node_dict, selected_node_id, last, edits,
                   generation_settings, gen, worker, events>>

\* grandchild["text"] = "\n\n** Generating **", line 607-608
MarkGrandchild ==
    /\ owner.pc = "mark_grandchildren"
    /\ nodes' = [nodes EXCEPT ![gen.grandchildren[owner.i]].text = Generating]
    /\ owner' = IF owner.i < Len(gen.grandchildren) THEN [owner EXCEPT !.i = @ + 1]
                ELSE [pc |-> "refresh", i |-> 0]
    /\ UNCHANGED <<selvars, chaptervars, tree_raw_data, tree_node_dict, selected_node_id, last, edits,
                   generation_settings, gen, worker, events>>

\* self.tree_updated(), line 609
RefreshAfterMarking ==
    /\ owner.pc = "refresh"
    /\ Goes(tree_updated(State))
    /\ owner' = [pc |-> IF gen.update_selection THEN "select" ELSE "idle", i |-> 0]
    /\ UNCHANGED <<selvars, last, edits, generation_settings, gen, worker, events>>

\* self.select_node(children[0]["id"]), line 610-611
SelectFirstChild ==
    /\ owner.pc = "select"
    /\ Goes(select_node(State, nodes[gen.children[1]].id))
    /\ owner' = [pc |-> "idle", i |-> 0]
    /\ UNCHANGED <<selvars, last, edits, generation_settings, gen, worker, events>>

\* Where generate_for_nodes goes with what the backend returned, line
\* 552-567; without `results.choices` line 555 or 565 ends the thread.
after_backend(resp, adaptive) ==
    IF resp.error # <<>> THEN "error_text"
    ELSE IF ~resp.choices_ok THEN "died"
    ELSE IF adaptive THEN "split_child" ELSE "write"

\* The backend call returns, line 539-551
BackendReturns ==
    /\ worker.pc = "backend"
    /\ \E resp \in (IF generation_settings.janus THEN janus_generate(gen.prompt, Len(gen.children))
                    ELSE api_generate(gen.prompt, Len(gen.children))) :
          worker' = [pc |-> after_backend(resp, generation_settings.adaptive), i |-> 1, resp |-> resp,
                     raised |-> IF after_backend(resp, generation_settings.adaptive) = "died"
                                THEN "AttributeError" ELSE "none"]
    /\ UNCHANGED <<selvars, chaptervars, nodes, tree_raw_data, tree_node_dict, selected_node_id, last, edits,
                   generation_settings, gen, owner, events>>

\* node["text"] = results.choices[index]["text"], line 564-565
WorkerWriteText ==
    /\ worker.pc = "write"
    /\ nodes' = [nodes EXCEPT ![gen.children[worker.i]].text = worker.resp.choices[worker.i].text]
    /\ worker' = IF worker.i < Len(gen.children) THEN [worker EXCEPT !.i = @ + 1]
                 ELSE [worker EXCEPT !.pc = "print"]
    /\ UNCHANGED <<selvars, chaptervars, tree_raw_data, tree_node_dict, selected_node_id, last, edits,
                   generation_settings, gen, owner, events>>

\* nodes[i]["text"] = childtext, line 555-560
WorkerWriteChildText ==
    /\ worker.pc = "split_child"
    /\ nodes' = [nodes EXCEPT ![gen.children[worker.i]].text =
                    childtext(worker.resp.choices[worker.i], gen.prompt)]
    /\ worker' = [worker EXCEPT !.pc = "split_grandchild"]
    /\ UNCHANGED <<selvars, chaptervars, tree_raw_data, tree_node_dict, selected_node_id, last, edits,
                   generation_settings, gen, owner, events>>

\* grandchildren[i]["text"] = grandchild_text, line 561
WorkerWriteGrandchildText ==
    /\ worker.pc = "split_grandchild"
    /\ nodes' = [nodes EXCEPT ![gen.grandchildren[worker.i]].text =
                    grandchild_text(worker.resp.choices[worker.i], gen.prompt)]
    /\ worker' = IF worker.i < Len(worker.resp.choices)
                 THEN [worker EXCEPT !.pc = "split_child", !.i = @ + 1]
                 ELSE [worker EXCEPT !.pc = "print"]
    /\ UNCHANGED <<selvars, chaptervars, tree_raw_data, tree_node_dict, selected_node_id, last, edits,
                   generation_settings, gen, owner, events>>

\* node["text"] = "ERROR: " + error, line 569-570
WorkerWriteError ==
    /\ worker.pc = "error_text"
    /\ nodes' = [nodes EXCEPT ![gen.children[worker.i]].text = ErrorPrefix \o worker.resp.error]
    /\ worker' = [worker EXCEPT !.pc = "remove"]
    /\ UNCHANGED <<selvars, chaptervars, tree_raw_data, tree_node_dict, selected_node_id, last, edits,
                   generation_settings, gen, owner, events>>

\* parent = self.tree_node_dict[node["parent_id"]]; parent["children"].remove(node),
\* line 572-573: a KeyError or a ValueError ends the thread
WorkerRemove ==
    /\ worker.pc = "remove"
    /\ LET node == gen.children[worker.i]
           found == /\ nodes[node].parent_id \in DictKeys(tree_node_dict)
                    /\ node \in Range(nodes[DictGet(tree_node_dict, nodes[node].parent_id)].children)
       IN  IF found
           THEN /\ nodes' = [nodes EXCEPT ![DictGet(tree_node_dict, nodes[node].parent_id)].children =
                                remove_placeholder(@, node)]
                /\ worker' = IF worker.i < Len(gen.children)
                             THEN [worker EXCEPT !.pc = "error_text", !.i = @ + 1]
                             ELSE [worker EXCEPT !.pc = "print"]
           ELSE /\ worker' = [worker EXCEPT !.pc = "died",
                                             !.raised = IF nodes[node].parent_id \in DictKeys(tree_node_dict)
                                                        THEN "ValueError" ELSE "KeyError"]
                /\ UNCHANGED nodes
    /\ UNCHANGED <<selvars, chaptervars, tree_raw_data, tree_node_dict, selected_node_id, last, edits,
                   generation_settings, gen, owner, events>>

\* for result in results.choices: print(...), line 575-576: an
\* AttributeError ends the thread when results has no `choices`
WorkerPrint ==
    /\ worker.pc = "print"
    /\ worker' = IF worker.resp.choices_ok THEN [worker EXCEPT !.pc = "handoff"]
                 ELSE [worker EXCEPT !.pc = "died", !.raised = "AttributeError"]
    /\ UNCHANGED <<selvars, chaptervars, nodes, tree_raw_data, tree_node_dict, selected_node_id, last, edits,
                   generation_settings, gen, owner, events>>

\* self.app.event_generate("<<TreeUpdated>>", when="tail"), line 579
WorkerHandOff ==
    /\ worker.pc = "handoff"
    /\ events' = events + 1
    /\ gen' = [gen EXCEPT !.handoffs = @ + 1]
    /\ worker' = [worker EXCEPT !.pc = "done"]
    /\ UNCHANGED <<selvars, chaptervars, nodes, tree_raw_data, tree_node_dict, selected_node_id, last, edits,
                   generation_settings, owner>>

\* The main loop runs the binding of line 74 for a queued <<TreeUpdated>>
TreeUpdatedEvent ==
    /\ owner.pc = "idle" /\ events > 0
    /\ Goes(tree_updated(State))
    /\ events' = events - 1
    /\ UNCHANGED <<selvars, last, edits, generation_settings, gen, owner, worker>>

\* Documents to generate on: a root, and a root with a child
GenDocuments ==
    { Document(<<DocNode(<<"a">>, <<>>)>>),
      Document(<<DocNode(<<"a">>, <<2>>), DocNode(<<"b">>, <<>>)>>) }

\* delete_node, called while the worker thread of a request runs
DeleteNodeMeanwhile ==
    /\ Ready /\ ~WorkerStopped /\ edits < MaxMeanwhile
    /\ edits' = edits + 1
    /\ \E node \in Indexed, reassign_children \in BOOLEAN :
          Becomes(delete_node(State, node, reassign_children),
                  Call("delete_node", node, reassign_children))
    /\ UNCHANGED <<genvars, selvars>>

\* The "generation_settings" a document can carry
DocumentSettings ==
    [num_continuations : 1..MaxContinuations, janus : BOOLEAN, adaptive : BOOLEAN]

\* _init_global_objects, line 453-456: the document's settings over the defaults
init_generation_settings(settings) ==
    [key \in DOMAIN DEFAULT_GENERATION_SETTINGS |->
        IF key \in DOMAIN settings THEN settings[key] ELSE DEFAULT_GENERATION_SETTINGS[key]]

LoadGenDocument ==
    /\ ~Loaded
    /\ \E doc \in GenDocuments, settings \in DocumentSettings :
          /\ Becomes(load_tree_data(State, doc), Call("load_tree_data", None, None))
          /\ generation_settings' = init_generation_settings(settings)
    /\ UNCHANGED <<selvars, edits, gen, owner, worker, events>>

NextGen ==
    \/ LoadGenDocument
    \/ GenerateContinuation
    \/ MarkChild
    \/ MarkGrandchild
    \/ RefreshAfterMarking
    \/ SelectFirstChild
    \/ BackendReturns
    \/ WorkerWriteText
    \/ WorkerWriteChildText
    \/ WorkerWriteGrandchildText
    \/ WorkerWriteError
    \/ WorkerRemove
    \/ WorkerPrint
    \/ WorkerHandOff
    \/ TreeUpdatedEvent
    \/ DeleteNodeMeanwhile

SpecGen == Init /\ [][NextGen]_vars

-----------------------------------------------------------------------------
(* Properties of the structural edits *)

StructuralEdits ==
    {"create_child", "create_sibling", "create_parent", "merge_with_parent",
     "merge_with_children", "change_parent", "delete_node"}

\* The tree: the node objects met by a top-down traversal from the root
TreeOrder == IF Loaded THEN flatten_order(nodes, <<tree_raw_data>>) ELSE <<>>

TreeNodes == Range(TreeOrder)

\* The nodes of the tree that list h among their children
ListedBy(h) == {p \in TreeNodes : h \in Range(nodes[p].children)}

ExactlyOneRoot ==
    /\ nodes[tree_raw_data].parent_id = None
    /\ \A h \in TreeNodes : nodes[h].parent_id = None => h = tree_raw_data

ParentListsChildOnce ==
    \A h \in TreeNodes \ {tree_raw_data} :
        \E p \in TreeNodes :
            /\ nodes[p].id = nodes[h].parent_id
            /\ Count(nodes[p].children, h) = 1
            /\ ListedBy(h) = {p}

IdsUnique ==
    \A i, j \in DOMAIN TreeOrder :
        i # j => nodes[TreeOrder[i]].id # nodes[TreeOrder[j]].id

\* C1: after each structural edit of a loaded tree, the tree has exactly one
\* root (the only node without parent_id), every other node's parent lists
\* it exactly once in its children, and all ids are distinct.
C1_TreeInvariants ==
    (Loaded /\ last.op \in StructuralEdits) =>
        ExactlyOneRoot /\ ParentListsChildOnce /\ IdsUnique

\* Witness of C1: a delete with reassigned children has moved a grandchild
\* up, under a root that a create_parent call put above the loaded root.
C1_Witness ==
    /\ last.op = "delete_node" /\ last.arg = TRUE /\ last.ret = "returned"
    /\ last.len = 1 /\ tree_raw_data # 1
    /\ Len(nodes[tree_raw_data].children) = 1
    /\ Cardinality(TreeNodes) = 2

\* C2: when a structural edit returns, the flat index holds exactly the
\* nodes a top-down traversal from the root meets, each under its own id,
\* and every indexed node but the root has the parent_id of the node that
\* lists it in children.
C2_IndexMatchesTree ==
    (Loaded /\ last.op \in StructuralEdits /\ last.ret = "returned") =>
        /\ DictValues(tree_node_dict) = TreeOrder
        /\ \A i \in DOMAIN tree_node_dict :
              tree_node_dict[i].id = nodes[tree_node_dict[i].node].id
        /\ \A i, j \in DOMAIN tree_node_dict :
              i # j => tree_node_dict[i].id # tree_node_dict[j].id
        /\ \A h \in Indexed \ {tree_raw_data} :
              \E p \in Indexed :
                  /\ h \in Range(nodes[p].children)
                  /\ nodes[h].parent_id = nodes[p].id

\* Witness of C2: change_parent has returned after moving a node, and the
\* index holds the three nodes of the tree.
C2_Witness ==
    /\ last.op = "change_parent" /\ last.ret = "returned"
    /\ last.parent # None /\ last.arg # nodes[last.parent].id
    /\ last.node \in Indexed
    /\ nodes[last.node].parent_id = last.arg
    /\ Len(tree_node_dict) = 3

\* The call was delete_node(node, reassign_children=False) on a node with a
\* parent, and it returned.
DeletedWithoutReassign ==
    /\ last.op = "delete_node" /\ last.arg = FALSE /\ last.ret = "returned"
    /\ last.parent # None

\* The id of the remaining sibling at 0-based position i
RemainingSiblingId(i) == nodes[nodes[last.parent].children[i + 1]].id

\* C10 as claimed: the parent is selected if node was the only child, else
\* the sibling at node's former index clipped to the last remaining sibling.
C10_Original ==
    DeletedWithoutReassign =>
        IF last.len = 1
        THEN selected_node_id = nodes[last.parent].id
        ELSE selected_node_id =
                RemainingSiblingId(IF last.pos > last.len - 2 THEN last.len - 2 ELSE last.pos)

\* C10 amended: the parent is selected if node was the only child, else the
\* sibling at node's former index taken modulo the number of remaining
\* siblings (deleting the last of several siblings selects the first).
C10_SelectsWrappedSibling ==
    DeletedWithoutReassign =>
        IF last.len = 1
        THEN selected_node_id = nodes[last.parent].id
        ELSE selected_node_id = RemainingSiblingId(last.pos % (last.len - 1))

\* Witness of C10: the last of three siblings was deleted and the first of
\* the two that remain is selected.
C10_Witness ==
    /\ DeletedWithoutReassign
    /\ last.len = 3 /\ last.pos = 2
    /\ selected_node_id = RemainingSiblingId(0)
    /\ selected_node_id # RemainingSiblingId(1)

-----------------------------------------------------------------------------
(* Properties of update_text *)

\* The number of spaces a text ends in
TrailingSpaces(t) ==
    CHOOSE k \in 0..Len(t) :
        /\ \A i \in (Len(t) - k + 1)..Len(t) : t[i] = " "
        /\ k = Len(t) \/ t[Len(t) - k] # " "

WithoutTrailingSpaces(t) == SubSeq(t, 1, Len(t) - TrailingSpaces(t))

\* The step is a call update_text(node, text) that returned
UpdateTextStep == last'.op = "update_text" /\ last'.ret = "returned"

ScenarioStep ==
    /\ UpdateTextStep
    /\ last'.arg = TheCatSat
    /\ nodes[last'.node].text = TheCatSat \o <<" ", " ">>
    /\ Len(nodes[last'.node].children) = 1
    /\ nodes[nodes[last'.node].children[1]].text = Down

\* C9 as claimed: the scenario yields parent text "The cat sat" and child
\* text "  down.".
C9_Original ==
    [][ScenarioStep =>
          /\ nodes'[last'.node].text = TheCatSat
          /\ nodes'[nodes[last'.node].children[1]].text = <<" ", " ">> \o Down]_vars

\* C9 amended: the scenario yields parent text "The cat sat" and leaves the
\* child text "down." (the new text ends in no space, so none is moved).
C9_ChildKeepsText ==
    [][ScenarioStep =>
          /\ nodes'[last'.node].text = TheCatSat
          /\ nodes'[nodes[last'.node].children[1]].text = Down]_vars

\* Witness of C9: the scenario's call has returned on the scenario's node.
C9_Witness ==
    /\ last.op = "update_text" /\ last.ret = "returned"
    /\ last.arg = TheCatSat
    /\ last.text = TheCatSat \o <<" ", " ">>
    /\ nodes[last.node].text = TheCatSat
    /\ Len(nodes[last.node].children) = 1
    /\ nodes[nodes[last.node].children[1]].text = Down

-----------------------------------------------------------------------------
(* Properties of generation *)

ErrorReported == worker.resp.error # <<>>

\* The worker is past the loop of line 569-573
RolledBack ==
    \/ worker.pc = "print"
    \/ worker.pc = "died" /\ worker.raised = "AttributeError"

\* The owner thread has been given no call since the generate_continuation
\* that made the request
NoOtherEdit ==
    last.op = "generate_continuation" /\ last.ret = "returned" /\ last.node # None

PlaceholdersGone ==
    \A i \in DOMAIN gen.children : gen.children[i] \notin Range(nodes[gen.node].children)

\* C3: when the backend reports an error for a request that made N
\* placeholder children under a node and the owner thread has been given no
\* other call, then once the worker is past its removal loop none of the N
\* placeholders is in the node's child list, and that list is what it was
\* before generate_continuation was called.
C3_PlaceholdersRolledBack ==
    (ErrorReported /\ RolledBack /\ NoOtherEdit) =>
        /\ PlaceholdersGone
        /\ nodes[gen.node].children = gen.children_before

\* An error rolled back two placeholders made under a node that had a child
C3_Witness ==
    /\ ErrorReported /\ RolledBack /\ NoOtherEdit
    /\ Len(gen.children) >= 2
    /\ gen.children_before # <<>>
    /\ \A i \in DOMAIN gen.children : nodes[gen.children[i]].text = ErrorPrefix \o RateLimited
    /\ nodes[gen.node].children = gen.children_before

\* The worker thread has ended, by returning or by an exception
WorkerEnded == worker.pc \in {"done", "died"}

\* C4: once the worker thread of a request whose backend call returned has
\* ended, it has issued exactly one <<TreeUpdated>> hand-off, with
\* completions and with an error alike.
C4_Original == WorkerEnded => gen.handoffs = 1

\* The owner thread is past the marker loops and the refresh of line 605-609
MarkedAndRefreshed == owner.pc \in {"select", "idle"}

\* C5: while the backend request of a generation request is dispatched (its
\* worker thread started), every placeholder has its marker text and the
\* tree has been refreshed: the owner thread is past line 609.
C5_Original == worker.pc # "none" => MarkedAndRefreshed

\* Backend returned, reconciliation handed off and handled,
\* generate_continuation returned
FullyProcessed == worker.pc = "done" /\ events = 0 /\ owner.pc = "idle"

\* C6: in non-adaptive mode, once a request the backend answered with
\* completions is fully processed, the i-th placeholder child's text is the
\* i-th completion's text.
C6_Original ==
    (~generation_settings.adaptive /\ FullyProcessed /\ ~ErrorReported) =>
        \A i \in DOMAIN gen.children :
            nodes[gen.children[i]].text = worker.resp.choices[i].text

\* A step of the worker thread that writes a node's text or a child list
WorkerWriteStep ==
    /\ worker.pc \in {"write", "split_child", "split_grandchild", "error_text", "remove"}
    /\ worker' # worker

\* The worker has made some of the writes of its reconciliation, not all
MidReconciliation ==
    /\ worker.pc \in {"write", "split_child", "split_grandchild", "error_text", "remove"}
    /\ worker.i > 1 \/ worker.pc \in {"split_grandchild", "remove"}

OwnerStep == owner' # owner \/ last' # last \/ events' < events

\* C7: reconciliation is one atomic edit serialized with the owner thread's
\* edits: the worker writes a text or a child list only while no operation
\* is running on the owner thread, and the owner thread takes no step
\* between the first and the last write of a reconciliation.
C7_Original ==
    [][/\ WorkerWriteStep => owner.pc = "idle"
       /\ OwnerStep => ~MidReconciliation]_vars

-----------------------------------------------------------------------------
(* Merges, on documents with texts *)

\* A root "a" with the children "", "b", "" whose middle child has the
\* children "c", ""; and a root "a" whose only child "b" has one child "c".
MergeDocuments ==
    { Document(<<DocNode(<<"a">>, <<2, 3, 4>>), DocNode(<<>>, <<>>),
                 DocNode(<<"b">>, <<5, 6>>), DocNode(<<>>, <<>>),
                 DocNode(<<"c">>, <<>>), DocNode(<<>>, <<>>)>>),
      Document(<<DocNode(<<"a">>, <<2>>), DocNode(<<"b">>, <<3>>),
                 DocNode(<<"c">>, <<>>)>>) }

LoadMergeDocument ==
    /\ ~Loaded
    /\ \E doc \in MergeDocuments :
          Becomes(load_tree_data(State, doc), Call("load_tree_data", None, None))
    /\ UNCHANGED <<edits, genvars, selvars>>

NextMerge ==
    \/ LoadMergeDocument
    \/ SelectNode
    \/ MergeWithParent

SpecMerge == Init /\ [][NextMerge]_vars

-----------------------------------------------------------------------------
(* Navigation *)

\* The steps a caller asks for: the small ones in both directions and two
\* far beyond every tree
Offsets == (0 - MaxOffset)..MaxOffset \cup {0 - 1000000, 1000000}

TraverseTree ==
    /\ Ready
    /\ \E offset \in Offsets :
          Becomes(traverse_tree(State, offset), Call("traverse_tree", None, offset))
    /\ UNCHANGED <<edits, genvars, selvars>>

SelectSibling ==
    /\ Ready
    /\ \E offset \in Offsets, node \in Indexed \cup {None} :
          Becomes(select_sibling(State, offset, node), Call("select_sibling", node, offset))
    /\ UNCHANGED <<edits, genvars, selvars>>

NextNav ==
    \/ LoadTreeData
    \/ SelectNode
    \/ TraverseTree
    \/ SelectSibling

SpecNav == Init /\ [][NextNav]_vars

-----------------------------------------------------------------------------
(* Chapters and imports *)

Chapter(id, root_id, title) == [id |-> id, root_id |-> root_id, title |-> title]

Registry(chapter_list) ==
    [i \in DOMAIN chapter_list |-> [id |-> chapter_list[i].id, node |-> chapter_list[i]]]

StoredNode(id, children, chapter_id) ==
    [NewNode(id) EXCEPT !.children = children, !.chapter_id = chapter_id]

\* A chain of four nodes without ids or chapters; a saved tree whose root
\* 101 has the children 102, with the chapter 11 "A", and 103
ChapterDocuments ==
    { Document(<<DocNode(<<>>, <<2>>), DocNode(<<>>, <<3>>), DocNode(<<>>, <<4>>),
                 DocNode(<<>>, <<>>)>>),
      [nodes |-> <<StoredNode(101, <<2, 3>>, None), StoredNode(102, <<>>, 11),
                   StoredNode(103, <<>>, None)>>,
       wrapped |-> TRUE, selected_node_id |-> 101, has_chapters |-> TRUE,
       chapters |-> Registry(<<Chapter(11, 102, "A")>>)] }

\* What an imported file can hold: a subtree 201 -> 202 with the chapters 11
\* on 201 and 12 on 202 and a registry of 11, 12 and 13, of which 13 is on
\* no node; one node without a registry; no "root" key
ImportDocuments ==
    { [nodes |-> <<StoredNode(201, <<2>>, 11), StoredNode(202, <<>>, 12)>>,
       wrapped |-> TRUE, selected_node_id |-> None, has_chapters |-> TRUE,
       chapters |-> Registry(<<Chapter(11, 201, "Z"), Chapter(12, 202, "B"),
                               Chapter(13, 203, "C")>>)],
      Document(<<DocNode(<<>>, <<>>)>>),
      Document(<<>>) }

Titles == {"", "A"}

LoadChapterDocument ==
    /\ ~Loaded
    /\ \E doc \in ChapterDocuments :
          Becomes(load_tree_data(State, doc), Call("load_tree_data", None, None))
    /\ UNCHANGED <<edits, genvars, selvars>>

\* The chapter a query returned is recorded with the call
ChapterOf ==
    /\ Ready
    /\ \E node \in Indexed :
          \E r \in {chapter(State, node)} :
             Becomes(IF r.raised THEN Raise(State) ELSE State,
                     Call("chapter", node, r.chapter))
    /\ UNCHANGED <<edits, genvars, selvars>>

CreateNewChapter ==
    /\ Ready /\ uuids < MaxChapters
    /\ \E node \in Indexed, title \in Titles :
          Becomes(create_new_chapter(State, node, title),
                  Call("create_new_chapter", node, title))
    /\ UNCHANGED <<edits, genvars, selvars>>

DeleteChapter ==
    /\ Ready
    /\ \E chapter_ \in Range(DictValues(chapters)) :
          Becomes(delete_chapter(State, chapter_, TRUE),
                  Call("delete_chapter", None, chapter_))
    /\ UNCHANGED <<edits, genvars, selvars>>

RemoveAllChapters ==
    /\ Ready
    /\ \E node \in Indexed \cup {None} :
          Becomes(remove_all_chapters(State, node), Call("remove_all_chapters", node, None))
    /\ UNCHANGED <<edits, genvars, selvars>>

ImportTree ==
    /\ Ready /\ edits < MaxImports
    /\ edits' = edits + 1
    /\ \E doc \in ImportDocuments :
          Becomes(import_tree(State, doc), Call("import_tree", None, doc))
    /\ UNCHANGED <<genvars, selvars>>

NextChapters ==
    \/ LoadChapterDocument
    \/ ChapterOf
    \/ CreateNewChapter
    \/ DeleteChapter
    \/ RemoveAllChapters
    \/ DeleteNode
    \/ MergeWithParent

SpecChapters == Init /\ [][NextChapters]_vars

NextImport ==
    \/ LoadChapterDocument
    \/ SelectNode
    \/ ImportTree

SpecImport == Init /\ [][NextImport]_vars

-----------------------------------------------------------------------------
(* Loads, one after another *)

Bare(doc) == [doc EXCEPT !.wrapped = FALSE]

StoredDocument(doc_nodes, stored_id) ==
    [Document(doc_nodes) EXCEPT !.selected_node_id = stored_id]

\* A saved tree 101 -> 102 -> 103
SavedNodes ==
    <<StoredNode(101, <<2>>, None), StoredNode(102, <<3>>, None),
      StoredNode(103, <<>>, None)>>

\* The documents without ids or selection, wrapped and bare; a saved tree
\* with its root, with its last node and with a node that is not in it
\* stored as the selection, and the same tree bare
LoadDocuments ==
    Documents \cup {Bare(doc) : doc \in Documents}
        \cup {StoredDocument(SavedNodes, id) : id \in {101, 103, 104}}
        \cup {Bare(StoredDocument(SavedNodes, 103))}

LoadDocument ==
    /\ owner.pc = "idle" /\ edits < MaxLoads
    /\ edits' = edits + 1
    /\ \E doc \in LoadDocuments :
          Becomes(load_tree_data(State, doc), Call("load_tree_data", None, doc))
    /\ UNCHANGED <<genvars, selvars>>

NextLoad ==
    \/ LoadDocument
    \/ SelectNode

SpecLoad == Init /\ [][NextLoad]_vars

-----------------------------------------------------------------------------
(* Reparenting under any id *)

\* The ids a caller can pass as new_parent_id: those of the index, None
\* (the default of the argument) and an id that no node has
ParentIds == DictKeys(tree_node_dict) \cup {None, Len(nodes) + 1}

ChangeParentAnywhere ==
    /\ Ready
    /\ \E node \in Indexed, new_parent_id \in ParentIds :
          Becomes(change_parent(State, node, new_parent_id),
                  Call("change_parent", node, new_parent_id))
    /\ UNCHANGED <<edits, genvars, selvars>>

NextReparent ==
    \/ LoadTreeData
    \/ ChangeParentAnywhere

SpecReparent == Init /\ [][NextReparent]_vars

-----------------------------------------------------------------------------
(* select_node, line 204-221, statement by statement.  The owner thread's
   frame is owner: the statement it is at, the node_id and fire_callbacks
   it was called with.  A callback registered for pre_selection_updated or
   selection_updated is called by the event wrapper (line 21-28) when the
   method of that name returns, and is given the view of that moment. *)

View(at) ==
    [at |-> at, selected_node_id |-> selected_node_id,
     visited |-> visited, open |-> open]

\* The history record of a call that is at `ret`
Calling(call, ret) ==
    [op |-> call.op, node |-> call.node, arg |-> call.arg, text |-> call.text,
     parent |-> call.parent, pos |-> call.pos, len |-> call.len, ret |-> ret]

SelectNodeCall(node_id, fire_callbacks) ==
    Call("select_node", None, [node_id |-> node_id, fire_callbacks |-> fire_callbacks])

\* `then` is where the caller goes on when select_node returns
SelectFrame(pc, node_id, fire_callbacks, then) ==
    [pc |-> pc, i |-> node_id, fire_callbacks |-> fire_callbacks, then |-> then]

\* The owner thread and the history when select_node returns
SelectNodeReturns ==
    /\ owner' = [pc |-> owner.then, i |-> 0]
    /\ last' = IF owner.then = "idle" THEN [last EXCEPT !.ret = "returned"] ELSE last

\* The ids a caller can pass: those of the index and one that is in no tree
PassedIds == DictKeys(tree_node_dict) \cup {Len(nodes) + 1}

\* load_tree_data up to its call of select_node (line 486); no node of the
\* documents has an "open" key, so line 482 gives every node open = False
LoadAndEnterSelectNode ==
    /\ ~Loaded
    /\ \E doc \in Documents :
        \E M3 \in {tree_data_loaded(State, doc)} :
        \E node_id \in {tree_data_selection(M3, doc)} :
          /\ GoesHolding(M3, {})
          /\ visited' = {}
          /\ open' = {}
          /\ trace' = <<[at |-> "select_node", selected_node_id |-> M3.sel,
                         visited |-> {}, open |-> {}]>>
          /\ IF select_node_applies(M3, node_id)
             THEN /\ owner' = SelectFrame("pre_selection_updated", node_id, TRUE, "idle")
                  /\ last' = Calling(SelectNodeCall(node_id, TRUE), "running")
             ELSE /\ owner' = owner
                  /\ last' = Calling(SelectNodeCall(node_id, TRUE), "returned")
    /\ UNCHANGED <<edits, generation_settings, gen, worker, events>>

\* line 204-205: the call and its condition
EnterSelectNode ==
    /\ Ready
    /\ \E node_id \in PassedIds, fire_callbacks \in BOOLEAN :
          /\ trace' = <<View("select_node")>>
          /\ IF select_node_applies(State, node_id)
             THEN /\ owner' = SelectFrame("pre_selection_updated", node_id, fire_callbacks, "idle")
                  /\ last' = Calling(SelectNodeCall(node_id, fire_callbacks), "running")
             ELSE /\ owner' = owner
                  /\ last' = Calling(SelectNodeCall(node_id, fire_callbacks), "returned")
    /\ UNCHANGED <<nodes, tree_raw_data, tree_node_dict, selected_node_id, chaptervars,
                   edits, generation_settings, gen, worker, events, visited, open>>

\* line 206
PreSelectionUpdated ==
    /\ owner.pc = "pre_selection_updated"
    /\ trace' = Append(trace, View("pre_selection_updated"))
    /\ owner' = [owner EXCEPT !.pc = "selected_node_id"]
    /\ UNCHANGED <<nodes, tree_raw_data, tree_node_dict, selected_node_id, chaptervars,
                   last, edits, generation_settings, gen, worker, events, visited, open>>

\* line 208
SetSelectedNodeId ==
    /\ owner.pc = "selected_node_id"
    /\ selected_node_id' = owner.i
    /\ owner' = [owner EXCEPT !.pc = "visited"]
    /\ UNCHANGED <<nodes, tree_raw_data, tree_node_dict, chaptervars, last, edits,
                   generation_settings, gen, worker, events, visited, open, trace>>

\* line 209
SetVisited ==
    /\ owner.pc = "visited"
    /\ visited' = visited \cup {selected_node(State)}
    /\ owner' = [owner EXCEPT !.pc = "open"]
    /\ UNCHANGED <<nodes, tree_raw_data, tree_node_dict, selected_node_id, chaptervars,
                   last, edits, generation_settings, gen, worker, events, open, trace>>

\* ancestors[:], the node itself included
all_with_last(list) == SubSeq(list, 1, Len(list))

\* ancestors[:-1], line 214
all_but_last(list) == SubSeq(list, 1, Len(list) - 1)

\* line 212-220: the ancestors and the root are opened; the call returns
\* here when fire_callbacks is False, and is left by the KeyError of
\* node_ancestry when the parent chain leaves the index
OpenAncestors ==
    /\ owner.pc = "open"
    /\ \E ancestors \in {node_ancestry(nodes, tree_node_dict, selected_node(State))} :
          IF ancestors = <<>>
          THEN /\ open' = open
               /\ owner' = [pc |-> "idle", i |-> 0]
               /\ last' = [last EXCEPT !.ret = "raised"]
          ELSE /\ open' = open \cup Range(all_but_last(ancestors)) \cup {tree_raw_data}
               /\ IF owner.fire_callbacks
                  THEN owner' = [owner EXCEPT !.pc = "selection_updated"] /\ last' = last
                  ELSE SelectNodeReturns
    /\ UNCHANGED <<nodes, tree_raw_data, tree_node_dict, selected_node_id, chaptervars,
                   edits, generation_settings, gen, worker, events, visited, trace>>

\* line 220-221
SelectionUpdated ==
    /\ owner.pc = "selection_updated"
    /\ trace' = Append(trace, View("selection_updated"))
    /\ SelectNodeReturns
    /\ UNCHANGED <<nodes, tree_raw_data, tree_node_dict, selected_node_id, chaptervars,
                   edits, generation_settings, gen, worker, events, visited, open>>

\* The call of select_node from delete_node (line 368, 370) or
\* merge_with_parent (line 313), made with the model at M and followed by
\* tree_updated
EnterSelectNodeFrom(M, call, node_id) ==
    /\ Goes(M)
    /\ last' = Calling(call, "running")
    /\ trace' = <<View("select_node")>>
    /\ owner' = IF select_node_applies(M, node_id)
                THEN SelectFrame("pre_selection_updated", node_id, TRUE, "tree_updated")
                ELSE [pc |-> "tree_updated", i |-> 0]
    /\ UNCHANGED <<visited, open>>

\* delete_node, line 354-370
EnterDeleteNode ==
    /\ Ready
    /\ \E node \in Indexed, reassign_children \in BOOLEAN :
        \E call \in {Call("delete_node", node, reassign_children)} :
          IF nodes[node].parent_id = None
          THEN Becomes(State, call) /\ UNCHANGED <<owner, selvars>>
          ELSE \E M1 \in {delete_node_removed(State, node, reassign_children)} :
                 IF M1.raised
                 THEN Becomes(M1, call) /\ UNCHANGED <<owner, selvars>>
                 ELSE EnterSelectNodeFrom(M1, call,
                         delete_node_selects(State, M1, node, reassign_children))
    /\ UNCHANGED <<edits, generation_settings, gen, worker, events>>

\* merge_with_parent, line 299-313
EnterMergeWithParent ==
    /\ Ready
    /\ \E node \in Indexed :
        \E call \in {Call("merge_with_parent", node, None)} :
        \E M3 \in {merge_with_parent_spliced(State, node)} :
          IF M3.raised
          THEN Becomes(M3, call) /\ UNCHANGED <<owner, selvars>>
          ELSE EnterSelectNodeFrom(M3, call, merge_with_parent_selects(State, node))
    /\ UNCHANGED <<edits, generation_settings, gen, worker, events>>

\* tree_updated, line 314 and 371, and the return of the edit
TreeUpdated ==
    /\ owner.pc = "tree_updated"
    /\ Goes(tree_updated(State))
    /\ owner' = [pc |-> "idle", i |-> 0]
    /\ last' = [last EXCEPT !.ret = "returned"]
    /\ UNCHANGED <<edits, generation_settings, gen, worker, events, selvars>>

NextSelect ==
    \/ LoadAndEnterSelectNode
    \/ EnterSelectNode
    \/ EnterDeleteNode
    \/ EnterMergeWithParent
    \/ TreeUpdated
    \/ PreSelectionUpdated
    \/ SetSelectedNodeId
    \/ SetVisited
    \/ OpenAncestors
    \/ SelectionUpdated

SpecSelect == Init /\ [][NextSelect]_vars

-----------------------------------------------------------------------------
(* The adaptive split of generate_for_nodes, line 554-561, over completions
   whose least likely token and token offsets are anything the backend can
   send *)

\* The texts of a completion, a token to a character
SplitTexts == { <<"p">>, <<"p", "q">> }

\* token_logprobs with the least value at token m, or all equal for m = 0
LogprobsWithMinAt(n, m) == [j \in 1..n |-> IF j = m THEN -2 ELSE -1]

\* The completions line 556-559 can be handed for a prompt: every text,
\* every place of the least likely token, and token offsets that start
\* before, at and after the end of the prompt
SplitResults(prompt) ==
    UNION { { [text |-> text,
               token_logprobs |-> LogprobsWithMinAt(Len(text), m),
               text_offset |-> [j \in 1..Len(text) |-> base + j - 1]] :
              m \in 0..Len(text), base \in 0..(Len(prompt) + 2) } :
            text \in SplitTexts }

\* A document is loaded whose settings ask for adaptive generation from
\* the API
LoadAdaptiveDocument ==
    /\ ~Loaded
    /\ \E doc \in GenDocuments, num_continuations \in 1..MaxContinuations :
          /\ Becomes(load_tree_data(State, doc), Call("load_tree_data", None, None))
          /\ generation_settings' = init_generation_settings(
                 [num_continuations |-> num_continuations, janus |-> FALSE,
                  adaptive |-> TRUE])
    /\ UNCHANGED <<selvars, edits, gen, owner, worker, events>>

\* generate_continuation with room for two children and their children
GenerateAdaptiveContinuation == GenerateContinuationWithin(MaxSplitHeap)

\* api_generate returns a completion for each node, line 546-551
BackendReturnsCompletions ==
    /\ worker.pc = "backend"
    /\ \E choices \in [1..Len(gen.children) -> SplitResults(gen.prompt)] :
          worker' = [pc |-> "split_child", i |-> 1,
                     resp |-> [choices_ok |-> TRUE, choices |-> choices, error |-> <<>>],
                     raised |-> "none"]
    /\ UNCHANGED <<selvars, chaptervars, nodes, tree_raw_data, tree_node_dict,
                   selected_node_id, last, edits, generation_settings, gen, owner, events>>

NextSplit ==
    \/ LoadAdaptiveDocument
    \/ GenerateAdaptiveContinuation
    \/ MarkChild
    \/ MarkGrandchild
    \/ RefreshAfterMarking
    \/ SelectFirstChild
    \/ BackendReturnsCompletions
    \/ WorkerWriteChildText
    \/ WorkerWriteGrandchildText

SpecSplit == Init /\ [][NextSplit]_vars

-----------------------------------------------------------------------------
(* merge_with_parent *)

\* The step is a call of merge_with_parent on the node that is the root
MergeOfRootStep == last'.op = "merge_with_parent" /\ last'.node = tree_raw_data

\* C11: merge_with_parent applied to the root returns normally, without
\* raising, and leaves the tree, the index and the selection unchanged.
C11_Original ==
    [][MergeOfRootStep =>
          /\ last'.ret = "returned"
          /\ UNCHANGED <<nodes, tree_raw_data, tree_node_dict, selected_node_id, chapters>>]_vars

\* The step is a call of merge_with_parent on a node that is not the root
MergeOfChildStep == last'.op = "merge_with_parent" /\ last'.node # tree_raw_data

\* C12: merge_with_parent on a non-root node n with parent p returns with
\* p.text the old p.text followed by n.text, with n replaced in p's child
\* list by n's children, in their order and at n's position, with those
\* children's parent_id p's id, with n out of the tree and the index, and
\* with p selected.
C12_MergesIntoParent ==
    [][MergeOfChildStep =>
          LET n == last'.node
              p == last'.parent
              i == last'.pos + 1
              siblings == nodes[p].children
              children == nodes[n].children
          IN  /\ last'.ret = "returned"
              /\ nodes'[p].text = nodes[p].text \o nodes[n].text
              /\ nodes'[p].children =
                    SubSeq(siblings, 1, i - 1) \o children
                        \o SubSeq(siblings, i + 1, Len(siblings))
              /\ \A c \in Range(children) : nodes'[c].parent_id = nodes'[p].id
              /\ n \notin TreeNodes'
              /\ n \notin Range(DictValues(tree_node_dict'))
              /\ nodes[n].id \notin DictKeys(tree_node_dict')
              /\ selected_node_id' = nodes[p].id]_vars

\* A node with text and two children, between two siblings, has been
\* merged into a parent with text, and the parent is selected
C12_Witness ==
    /\ last.op = "merge_with_parent" /\ last.ret = "returned"
    /\ last.pos = 1 /\ last.len = 3
    /\ last.text # <<>>
    /\ Len(nodes[last.parent].children) = 4
    /\ Len(nodes[last.parent].text) = 2
    /\ selected_node_id = nodes[last.parent].id

-----------------------------------------------------------------------------
(* change_parent *)

\* The step is a call of change_parent; the node's id, and whether the call
\* is one of those that have nothing to do
ChangeParentStep == last'.op = "change_parent"

NothingToChange ==
    IF last'.arg = nodes[last'.node].parent_id THEN TRUE
    ELSE IF last'.arg = nodes[last'.node].id THEN TRUE
    ELSE last'.node = tree_raw_data

\* The model as the call of the step leaves it, before Python frees the
\* objects that nothing references any more
ChangeParentResult == change_parent(State, last'.node, last'.arg)

\* C13: change_parent(node, new_parent_id) leaves the tree, the index and
\* the selection unchanged when new_parent_id is node's parent_id or node's
\* own id or when node is the root; otherwise, new_parent_id being an id of
\* the index, node with its children is the last child of the new parent
\* and no child of the old parent.
C13_ChangeParent ==
    [][ChangeParentStep =>
          IF NothingToChange
          THEN /\ last'.ret = "returned"
               /\ UNCHANGED <<nodes, tree_raw_data, tree_node_dict, selected_node_id, chapters>>
          ELSE \A M \in {ChangeParentResult} :
               LET node == last'.node
                   new_parent == DictGet(tree_node_dict, last'.arg)
                   old_parent == last'.parent
                   new_siblings == M.nodes[new_parent].children
               IN  /\ last'.ret = "returned"
                   /\ new_siblings = Append(nodes[new_parent].children, node)
                   /\ M.nodes[node].parent_id = last'.arg
                   /\ M.nodes[node].children = nodes[node].children
                   /\ node \notin Range(M.nodes[old_parent].children)
                   /\ selected_node_id' = selected_node_id
                   /\ node \in TreeNodes' =>
                         /\ nodes'[new_parent].children = new_siblings
                         /\ node \notin Range(nodes'[old_parent].children)
                         /\ nodes'[node] = M.nodes[node]]_vars

\* A node with a child has been moved from the root under its former
\* sibling and is in the tree with its child
C13_Witness ==
    /\ last.op = "change_parent" /\ last.ret = "returned"
    /\ last.parent = tree_raw_data
    /\ last.node \in TreeNodes
    /\ nodes[last.node].parent_id = last.arg
    /\ nodes[last.node].parent_id # nodes[tree_raw_data].id
    /\ nodes[last.node].children # <<>>
    /\ last.node \notin Range(nodes[tree_raw_data].children)

-----------------------------------------------------------------------------
(* Navigation *)

\* The position (0-based) of the selected node in the flatten order of the
\* tree, and the position offset steps further, kept within the order
SelectedPosition ==
    (CHOOSE i \in DOMAIN TreeOrder : nodes[TreeOrder[i]].id = selected_node_id) - 1

Saturated(offset) ==
    LET target == SelectedPosition + offset
    IN  IF target < 0 THEN 0
        ELSE IF target > Len(TreeOrder) - 1 THEN Len(TreeOrder) - 1
        ELSE target

SelectionValid == selected_node_id \in {nodes[h].id : h \in TreeNodes}

\* C14: with a tree loaded and a node of it selected, traverse_tree(offset)
\* returns with the node at index clip(current index + offset, 0, count - 1)
\* of the flatten order selected, however far the offset reaches.
C14_TraverseSaturates ==
    [][(last'.op = "traverse_tree" /\ SelectionValid) =>
          /\ last'.ret = "returned"
          /\ selected_node_id' = nodes[TreeOrder[Saturated(last'.arg) + 1]].id
          /\ SelectionValid']_vars

\* A far step backwards in a tree of four nodes has the first one selected
C14_Witness ==
    /\ last.op = "traverse_tree" /\ last.ret = "returned"
    /\ last.arg < 0 - MaxOffset
    /\ Len(TreeOrder) = 4
    /\ selected_node_id = nodes[TreeOrder[1]].id

\* The node a select_sibling step is about: the one given, or the selected
\* one; its parent in the tree; its position (0-based) among the siblings
SiblingStepNode ==
    IF last'.node # None THEN last'.node
    ELSE CHOOSE h \in TreeNodes : nodes[h].id = selected_node_id

SiblingStepSiblings ==
    nodes[CHOOSE p \in TreeNodes : SiblingStepNode \in Range(nodes[p].children)].children

SiblingStepPosition ==
    (CHOOSE i \in DOMAIN SiblingStepSiblings : SiblingStepSiblings[i] = SiblingStepNode) - 1

\* C15: select_sibling(offset) on a non-root node at position i among n
\* siblings, itself included, returns with the sibling at position
\* (i + offset) mod n selected, for offsets of either sign; when offset is
\* a multiple of n and the node is the selected one, the selection stays.
C15_SiblingWraps ==
    [][(/\ last'.op = "select_sibling"
        /\ SelectionValid
        /\ SiblingStepNode # tree_raw_data) =>
          LET n == Len(SiblingStepSiblings)
              target == (SiblingStepPosition + last'.arg) % n
          IN  /\ last'.ret = "returned"
              /\ target \in 0..(n - 1)
              /\ selected_node_id' = nodes[SiblingStepSiblings[target + 1]].id
              /\ (last'.arg % n = 0 /\ last'.node = None) =>
                     selected_node_id' = selected_node_id]_vars

\* One step backwards from the first of three siblings has selected the
\* third
C15_Witness ==
    /\ last.op = "select_sibling" /\ last.ret = "returned"
    /\ last.arg = 0 - 1 /\ last.pos = 0 /\ last.len = 3
    /\ selected_node_id = nodes[nodes[last.parent].children[3]].id

-----------------------------------------------------------------------------
(* Chapters *)

\* The node that lists h as a child, in the tree
TreeParent(h) == CHOOSE p \in TreeNodes : h \in Range(nodes[p].children)

\* The nearest node with a chapter_id on the way from h up to the root, h
\* included; None without one
RECURSIVE NearestChapterRoot(_)
NearestChapterRoot(h) ==
    IF nodes[h].chapter_id # None THEN h
    ELSE IF h = tree_raw_data THEN None
    ELSE NearestChapterRoot(TreeParent(h))

\* C16: chapter(node) returns the chapter of the nearest node with a
\* chapter_id on the path from node up to the root, node included, and none
\* when no node of the path has one.
C16_NearestChapter ==
    last.op = "chapter" =>
        /\ last.ret = "returned"
        /\ last.arg = IF NearestChapterRoot(last.node) = None THEN NoChapter
                      ELSE DictGet(chapters, nodes[NearestChapterRoot(last.node)].chapter_id)

\* The root without a chapter, its child A with one, A's child with another:
\* A's grandchild, which has none, was asked for and resolved to the chapter
\* of A's child
C16_Witness ==
    /\ last.op = "chapter" /\ last.ret = "returned"
    /\ Len(TreeOrder) = 4
    /\ last.node = TreeOrder[4]
    /\ nodes[TreeOrder[1]].chapter_id = None
    /\ nodes[TreeOrder[2]].chapter_id # None
    /\ nodes[TreeOrder[3]].chapter_id # None
    /\ nodes[TreeOrder[4]].chapter_id = None
    /\ nodes[TreeOrder[4]].parent_id = nodes[TreeOrder[3]].id
    /\ nodes[TreeOrder[3]].parent_id = nodes[TreeOrder[2]].id
    /\ last.arg.id = nodes[TreeOrder[3]].chapter_id
    /\ last.arg.root_id = nodes[TreeOrder[3]].id

\* C17: every chapter of the registry has a root_id that is the id of a
\* node of the tree, and that node's chapter_id is the chapter's id.
C17_Original ==
    Loaded =>
        \A c \in Range(DictValues(chapters)) :
            \E h \in TreeNodes : nodes[h].id = c.root_id /\ nodes[h].chapter_id = c.id

-----------------------------------------------------------------------------
(* Imports *)

\* The step imports a subtree with a chapter registry under the selection
ImportWithChaptersStep ==
    /\ last'.op = "import_tree"
    /\ last'.arg.nodes # <<>>
    /\ last'.arg.has_chapters
    /\ SelectionValid

\* The chapter ids on the nodes reachable from the root of a document
ReachableChapterIds(doc) ==
    {doc.nodes[i].chapter_id : i \in ReachableFrom(doc.nodes, {1})} \ {None}

\* C20: importing a subtree with a chapter registry adds to the registry
\* exactly the chapters whose id is the chapter_id of a node reachable from
\* the imported root and no key of the registry yet; the entries that were
\* there stay as they were, and no other chapter of the import is added.
C20_ImportsReachableChapters ==
    [][ImportWithChaptersStep =>
          LET doc == last'.arg
              added == ReachableChapterIds(doc) \ DictKeys(chapters)
          IN  /\ last'.ret = "returned"
              /\ DictKeys(chapters') = DictKeys(chapters) \cup added
              /\ Len(chapters') = Len(chapters) + Cardinality(added)
              /\ \A id \in DictKeys(chapters) :
                    DictGet(chapters', id) = DictGet(chapters, id)
              /\ \A id \in added :
                    DictGet(chapters', id) = DictGet(doc.chapters, id)]_vars

\* A subtree with the chapters 11 and 12 on its nodes and a registry of 11,
\* 12 and 13 has been imported into a tree that had a chapter 11: 12 is
\* new, 11 is as it was, 13 is not there
C20_Witness ==
    /\ last.op = "import_tree" /\ last.ret = "returned"
    /\ last.arg.has_chapters
    /\ DictKeys(last.arg.chapters) = {11, 12, 13}
    /\ DictKeys(chapters) = {11, 12}
    /\ DictGet(chapters, 11).title = "A"
    /\ DictGet(chapters, 12) = DictGet(last.arg.chapters, 12)

-----------------------------------------------------------------------------
(* Loads *)

\* The step loads a document whose nodes have no ids and which stores no
\* selection
LoadWithoutIdsStep ==
    /\ last'.op = "load_tree_data"
    /\ \A i \in DOMAIN last'.arg.nodes : last'.arg.nodes[i].id = None
    /\ last'.arg.selected_node_id = None

\* C18: loading a document without ids and without a stored selection,
\* wrapped or bare, gives an index with one entry per node, ids that are
\* assigned and pairwise distinct, every child's parent_id its parent's
\* id, and the root, the first node in flatten order, selected.
C18_LoadAssignsIds ==
    [][LoadWithoutIdsStep =>
          /\ last'.ret = "returned"
          /\ Len(TreeOrder') = Len(last'.arg.nodes)
          /\ DictValues(tree_node_dict') = TreeOrder'
          /\ Cardinality(DictKeys(tree_node_dict')) = Len(last'.arg.nodes)
          /\ \A i \in DOMAIN tree_node_dict' :
                /\ tree_node_dict'[i].id # None
                /\ nodes'[tree_node_dict'[i].node].id = tree_node_dict'[i].id
          /\ \A p \in TreeNodes' : \A c \in Range(nodes'[p].children) :
                nodes'[c].parent_id = nodes'[p].id
          /\ selected_node_id' = nodes'[TreeOrder'[1]].id
          /\ TreeOrder'[1] = tree_raw_data']_vars

\* A bare document of three nodes without ids has been loaded as the second
\* document of a run, and its root is selected
C18_Witness ==
    /\ last.op = "load_tree_data" /\ last.ret = "returned"
    /\ edits = 2
    /\ ~last.arg.wrapped
    /\ Len(last.arg.nodes) = 3
    /\ last.arg.nodes[1].id = None
    /\ Len(tree_node_dict) = 3
    /\ selected_node_id = nodes[tree_raw_data].id

\* C19: after load_tree_data has completed, whatever selected_node_id the
\* document stores and whatever was selected before, selected_node_id is
\* the id of a node of the flat index.
C19_Original ==
    (last.op = "load_tree_data" /\ last.ret = "returned") =>
        selected_node_id \in DictKeys(tree_node_dict)

-----------------------------------------------------------------------------
(* flatten_tree *)

\* The position of node h in a list of nodes without repetitions
PositionIn(list, h) == CHOOSE i \in DOMAIN list : list[i] = h

\* The nested children of the node with the given id, rebuilt from a flat
\* list by id and parent_id alone: the listed nodes with that parent_id, in
\* the order of the list
RECURSIVE RebuiltChildren(_, _, _, _)
RebuiltChildren(heap, list, id, i) ==
    IF i > Len(list) THEN <<>>
    ELSE (IF heap[list[i]].parent_id = id THEN <<list[i]>> ELSE <<>>)
            \o RebuiltChildren(heap, list, id, i + 1)

\* What C21 says of flatten_tree applied to the tree below d
FlattenedInPreOrder(heap, d) ==
    LET f == flatten_tree(heap, d)
        below(h) == ReachableFrom(heap, {h})
    IN  /\ Range(f.list) = below(d)
        /\ Len(f.list) = Cardinality(below(d))
        /\ f.list[1] = d
        /\ \A p \in below(d) :
              /\ \A c \in Range(heap[p].children) :
                    PositionIn(f.list, p) < PositionIn(f.list, c)
              /\ \A i, j \in DOMAIN heap[p].children :
                    i < j => \A x \in below(heap[p].children[i]) :
                                PositionIn(f.list, x) < PositionIn(f.list, heap[p].children[j])
              /\ RebuiltChildren(f.heap, f.list, f.heap[p].id, 1) = heap[p].children

\* C21: flatten_tree returns every node of the tree once, each parent
\* before its children and each subtree before the next sibling, and the
\* child lists rebuilt from the returned nodes' id and parent_id are the
\* original ones, in the original order.  Stated, before a load, of every
\* document that can be loaded and, after it, of the tree of the state.
C21_FlattenRoundTrip ==
    IF Loaded THEN FlattenedInPreOrder(nodes, tree_raw_data)
    ELSE \A doc \in Documents : FlattenedInPreOrder(doc.nodes, 1)

\* An edit has left a tree whose root has two children, the first of them
\* with a child of its own: the grandchild is flattened before its uncle
C21_Witness ==
    /\ Loaded /\ last.op \in StructuralEdits /\ last.ret = "returned"
    /\ Len(nodes[tree_raw_data].children) = 2
    /\ Len(nodes[nodes[tree_raw_data].children[1]].children) = 1
    /\ DictValues(tree_node_dict) =
          <<tree_raw_data, nodes[tree_raw_data].children[1],
            nodes[nodes[tree_raw_data].children[1]].children[1],
            nodes[tree_raw_data].children[2]>>

-----------------------------------------------------------------------------
(* Imports and ids *)

\* C22: after import_tree has attached a subtree under the selected node,
\* the ids of the tree are pairwise distinct and the flat index has one
\* entry for every node of the tree.
C22_Original ==
    (last.op = "import_tree" /\ last.ret = "returned" /\ last.arg.nodes # <<>>) =>
        /\ \A g, h \in TreeNodes : g # h => nodes[g].id # nodes[h].id
        /\ Len(tree_node_dict) = Cardinality(TreeNodes)

-----------------------------------------------------------------------------
(* change_parent under a descendant, and under an id that is not indexed *)

\* The step is a call of change_parent whose new parent is a node below
\* the node that is moved
ChangeParentToDescendantStep ==
    /\ last'.op = "change_parent"
    /\ last'.arg \in DictKeys(tree_node_dict)
    /\ DictGet(tree_node_dict, last'.arg) \in
          ReachableFrom(nodes, {last'.node}) \ {last'.node}

\* C23: change_parent(node, new_parent_id) with new_parent_id a strict
\* descendant of node leaves the tree as it was: every node that was
\* reachable from the root still is, with the children it had.
C23_Original ==
    [][ChangeParentToDescendantStep =>
          /\ TreeNodes' = TreeNodes
          /\ \A h \in TreeNodes : nodes'[h].children = nodes[h].children]_vars

\* The step is a call of change_parent on a node that has a parent in the
\* tree, with an id that is not in the index and is not the node's own
ChangeParentToUnknownStep ==
    /\ last'.op = "change_parent"
    /\ last'.arg \notin DictKeys(tree_node_dict)
    /\ last'.arg # nodes[last'.node].id
    /\ last'.parent # None
    /\ last'.pos >= 0

\* C24: change_parent(node, new_parent_id) with a new_parent_id that is not
\* in the index fails and changes nothing: node is a child of its old
\* parent at its old position and has its old parent_id.
C24_Original ==
    [][ChangeParentToUnknownStep =>
          /\ last'.ret = "raised"
          /\ nodes'[last'.node].parent_id = nodes[last'.node].parent_id
          /\ nodes'[last'.parent].children = nodes[last'.parent].children]_vars


-----------------------------------------------------------------------------
(* select_node *)

\* A select_node call that was asked to fire its callbacks has returned
SelectNodeReturned ==
    /\ owner.pc = "idle"
    /\ last.op = "select_node"
    /\ last.ret = "returned"
    /\ last.arg.fire_callbacks

\* The nodes of the tree strictly above h
ProperAncestors(h) ==
    {a \in TreeNodes : a # h /\ h \in ReachableFrom(nodes, {a})}

\* What a callback or the caller is shown, without the place it is shown at
Shown(view) ==
    [selected_node_id |-> view.selected_node_id, visited |-> view.visited,
     open |-> view.open]

\* C25: select_node(id) changes nothing and fires no callback when id is
\* the current selection or is not in the index.  Otherwise the
\* pre-selection callback fires first and is shown the model as it was on
\* entry, with the old selection; the post-selection callback fires last
\* and is shown the new selection, the node visited, its strict ancestors
\* and the root open, and the node itself open only if it was open before
\* or is the root; nothing changes after it.
C25_SelectNodeOrder ==
    SelectNodeReturned =>
        LET node_id == last.arg.node_id
            entry   == trace[1]
        IN  IF node_id = entry.selected_node_id
               \/ node_id \notin DictKeys(tree_node_dict)
            THEN /\ trace = <<entry>>
                 /\ Shown(View("now")) = Shown(entry)
            ELSE LET node == DictGet(tree_node_dict, node_id)
                 IN  /\ Len(trace) = 3
                     /\ trace[2] = [entry EXCEPT !.at = "pre_selection_updated"]
                     /\ trace[3].at = "selection_updated"
                     /\ trace[3].selected_node_id = node_id
                     /\ node \in trace[3].visited
                     /\ ProperAncestors(node) \cup {tree_raw_data} \subseteq trace[3].open
                     /\ node \in trace[3].open
                           => node \in entry.open \/ node = tree_raw_data
                     /\ Shown(View("now")) = Shown(trace[3])

\* A node two levels below the root was selected while closed: its parent
\* and the root were opened, the node was not
C25_Witness ==
    /\ SelectNodeReturned
    /\ Len(trace) = 3
    /\ selected_node_id \in DictKeys(tree_node_dict)
    /\ \E node \in {DictGet(tree_node_dict, selected_node_id)} :
          /\ Cardinality(ProperAncestors(node)) = 2
          /\ node \notin open
          /\ ProperAncestors(node) \subseteq open
          /\ trace[2].selected_node_id # selected_node_id


\* The owner thread is inside select_node: past the index query of line 205
\* and before the return
InSelectNode ==
    owner.pc \in {"pre_selection_updated", "selected_node_id", "visited", "open",
                  "selection_updated"}

\* The index holds the nodes of the tree and no other
IndexRebuilt == Indexed = TreeNodes

\* C26: no structural edit queries the index or fires a selection callback
\* between its change of the children lists and the rebuild of the index:
\* while select_node runs, the index holds no node that was taken out of
\* the tree.
C26_Original == InSelectNode => IndexRebuilt


-----------------------------------------------------------------------------
(* The adaptive split *)

\* The worker writes the text of the grandchild paired with its i-th node
GrandchildWriteStep ==
    /\ worker.pc = "split_grandchild"
    /\ worker'.pc # "split_grandchild"

\* C27: in adaptive mode, wherever the least likely token puts the split,
\* the text written to the i-th child followed by the text written to the
\* i-th grandchild, which is that child's only child, is the i-th
\* completion's text.  (The owner thread may have put its marker over
\* the child's text between the two writes.)
C27_SplitKeepsText ==
    [][GrandchildWriteStep =>
          \A child \in {gen.children[worker.i]}, grandchild \in {gen.grandchildren[worker.i]} :
             /\ nodes'[child].children = <<grandchild>>
             /\ nodes'[child].text # Generating
                   => nodes'[child].text \o nodes'[grandchild].text
                         = worker.resp.choices[worker.i].text]_vars

\* The second of two completions was split inside its text, and before it
\* the first at a position that is before the start of its text
C27_Witness ==
    /\ worker.pc = "print"
    /\ Len(gen.children) = 2
    /\ split_position(worker.resp.choices[1], gen.prompt) < 0
    /\ split_position(worker.resp.choices[2], gen.prompt) = 1
    /\ nodes[gen.children[2]].text = <<"p">>
    /\ nodes[gen.grandchildren[2]].text = <<"q">>


-----------------------------------------------------------------------------
(* The selection after a removal *)

\* The step is a call of delete_node, merge_with_parent or
\* merge_with_children on a node of the tree that is not the root, made
\* with a node of the tree selected
RemovalOfChildStep ==
    /\ last'.op \in {"delete_node", "merge_with_parent", "merge_with_children"}
    /\ last'.node \in TreeNodes \ {tree_raw_data}
    /\ SelectionValid

\* The selection is the id of a node of the tree, and the index gives
\* that node for it
SelectionInTreeAndIndex ==
    /\ selected_node_id \in DictKeys(tree_node_dict)
    /\ DictGet(tree_node_dict, selected_node_id) \in TreeNodes
    /\ nodes[DictGet(tree_node_dict, selected_node_id)].id = selected_node_id

\* C28: a delete_node (with or without reassign_children), merge_with_parent
\* or merge_with_children on a non-root node, called with a node of the
\* tree selected, returns with the selection on a node that is in the
\* tree and in the rebuilt index, whichever node was selected.
C28_SelectionSurvivesRemoval ==
    [][RemovalOfChildStep =>
          /\ last'.ret = "returned"
          /\ SelectionInTreeAndIndex'
          /\ Range(DictValues(tree_node_dict')) = TreeNodes']_vars

\* The selected node was deleted and had a sibling left, which is selected
C28_Witness ==
    /\ last.op = "delete_node"
    /\ last.arg = FALSE
    /\ last.ret = "returned"
    /\ last.len > 1
    /\ last.node \notin TreeNodes
    /\ SelectionInTreeAndIndex
    /\ selected_node_id # nodes[tree_raw_data].id


-----------------------------------------------------------------------------
(* The selection after a failed generation *)

\* C29: when a request made with update_selection=True has failed and its
\* placeholders have been rolled back, with no other call made meanwhile,
\* the selection is the id of a node of the tree, however the worker and
\* the owner thread were interleaved.
C29_Original ==
    (gen.update_selection /\ ErrorReported /\ RolledBack /\ NoOtherEdit
        /\ owner.pc = "idle") => SelectionValid

=============================================================================
